---- MODULE Spec2Model ----
(***************************************************************************)
(* Logico: the circuit data model (Pin, Wire, Component, Circuit), the     *)
(* evaluation order resolver, the Simulator frame loop, the subcircuit     *)
(* evaluation bridge and the application's circuit map with save/load.     *)
(***************************************************************************)
EXTENDS Integers, Sequences, FiniteSets, TLC

VARIABLES
    components,     \* Circuit.components of the circuit owned by the Simulator
    wires,          \* Circuit.wires of that circuit
    inst,           \* a SubcircuitComponent instance whose circuitInstance is that circuit
    running,        \* Simulator.running
    animationId,    \* Simulator.animationId (Null when no handle is stored)
    pendingFrames,  \* requestAnimationFrame handles the browser has queued
    now,            \* performance.now() / the frame timestamp
    obs,            \* observation of the last operation (calls it made, in order)
    circuits,       \* App.circuits: name -> Circuit (the displayed circuit's
                    \* components and wires are the variables above)
    currentCircuitName, \* App.currentCircuitName
    simCircuit,     \* the key under which the map holds simulator.circuit and
                    \* interactionManager.circuit ("-" when the map lacks that object)
    registry,       \* ComponentRegistry.components: the registered type ids
    nextId,         \* Component.nextId
    clipboard,      \* InteractionManager.clipboard
    clickedComponent \* InteractionManager.clickedComponent: the ref of the component
                    \* a press was delivered to (NoRef for null)

engineVars == <<components, wires, inst>>
simVars == <<running, animationId, pendingFrames, now>>
appVars == <<circuits, currentCircuitName, simCircuit, registry, nextId, clipboard,
             clickedComponent>>
vars == <<components, wires, inst, running, animationId, pendingFrames, now, obs,
          circuits, currentCircuitName, simCircuit, registry, nextId, clipboard,
          clickedComponent>>

----------------------------------------------------------------------------
(* Bounds *)

MaxWires == 3
MaxTime == 3

Null == 0
NoName == "-"

\* null where a component object is expected
NoRef == 0

----------------------------------------------------------------------------
(* Sequence helpers *)

RECURSIVE SelectIdx(_, _, _)
SelectIdx(s, i, type) ==
    IF i > Len(s) THEN <<>>
    ELSE (IF s[i].type = type THEN <<i>> ELSE <<>>) \o SelectIdx(s, i + 1, type)

Range(s) == {s[i] : i \in 1..Len(s)}

RemoveAt(s, i) == SubSeq(s, 1, i - 1) \o SubSeq(s, i + 1, Len(s))

\* Array.prototype.indexOf: first position of x, 0 when absent
IndexOf(s, x) ==
    IF \E i \in 1..Len(s) : s[i] = x
    THEN CHOOSE i \in 1..Len(s) : s[i] = x /\ \A j \in 1..(i - 1) : s[j] # x
    ELSE 0

----------------------------------------------------------------------------
(* Component definitions: pin counts, initial state and logic fragments.    *)
(* Besides the gates, INPUT, OUTPUT, LED and CLOCK: ASTABLE, a time-driven  *)
(* definition other than the clock (logic.update flips state.value), and    *)
(* two definitions whose logic.code throws, FAULTY_EARLY at its first       *)
(* statement and FAULTY_LATE after it has written output pin 0; and         *)
(* PUSH_BUTTON, held down with the mouse: logic.onMouseDown sets            *)
(* state.value, logic.onMouseUp clears it, logic.code writes it to output   *)
(* pin 0.                                                                   *)

GateTypes == {"AND", "OR", "NOT", "XOR", "NAND", "NOR"}

\* keys of the state object a definition starts with
DefaultKeys(type) ==
    CASE type = "INPUT" -> {"value"}
      [] type = "CLOCK" -> {"value", "lastToggle", "period"}
      [] type = "ASTABLE" -> {"value"}
      [] type = "PUSH_BUTTON" -> {"value"}
      [] OTHER -> {}

\* state.period of the clock definition, in the time units of now
ClockPeriod == 2

\* a component's state: which kind of value it is, the keys of the object and
\* the value under each key (FALSE / 0 under a key the object lacks)
UndefinedState ==
    [kind |-> "undefined", keys |-> {}, value |-> FALSE, lastToggle |-> 0, period |-> 0]

DefaultState(type) ==
    [kind |-> "object",
     keys |-> DefaultKeys(type),
     value |-> FALSE,
     lastToggle |-> 0,
     period |-> IF type = "CLOCK" THEN ClockPeriod ELSE 0]

NumInputs(type) ==
    CASE type \in {"AND", "OR", "XOR", "NAND", "NOR"} -> 2
      [] type \in {"NOT", "OUTPUT", "LED", "FAULTY_EARLY", "FAULTY_LATE"} -> 1
      [] OTHER -> 0

NumOutputs(type) ==
    CASE type \in {"OUTPUT", "LED"} -> 0
      [] OTHER -> 1

\* definition.logic.update is present
HasUpdateLogic(type) == type \in {"CLOCK", "ASTABLE"}

\* a JS value as the circuit handles it: value is its truth value, undefined
\* tells the value undefined from the boolean false
Bool(b) == [value |-> b, undefined |-> FALSE]
Undefined == [value |-> FALSE, undefined |-> TRUE]

\* Pin constructor: value, undefined describe the stored this.value
NewPin == [value |-> FALSE, undefined |-> FALSE, connectedWires |-> <<>>]

\* this.value of a pin
Stored(pin) == [value |-> pin.value, undefined |-> pin.undefined]

\* Component / GenericComponent constructor: id from Component.nextId, pins
\* from the definition, state from definition.logic.state
NewComponent(ref, id, type, x, y) ==
    [ref |-> ref, id |-> id, type |-> type, x |-> x, y |-> y, label |-> "",
     circuitName |-> NoName, circuitInstance |-> NoName,
     state |-> DefaultState(type),
     inputPins |-> [i \in 1..NumInputs(type) |-> NewPin],
     outputPins |-> [i \in 1..NumOutputs(type) |-> NewPin]]

\* the definitions ComponentRegistry.init() loads
BuiltinTypes ==
    GateTypes \cup {"INPUT", "OUTPUT", "CLOCK", "LED", "ASTABLE", "FAULTY_EARLY", "FAULTY_LATE",
                    "PUSH_BUTTON"}

\* Circuit constructor; isSubcircuit is set by the caller
NewCircuit(key, name) ==
    [key |-> key, name |-> name, isSubcircuit |-> FALSE, components |-> <<>>,
     wires |-> <<>>]

----------------------------------------------------------------------------
(* Pin *)

PinRef(comp, type, index) == [comp |-> comp, type |-> type, index |-> index]

HasComp(comps, ref) == \E i \in 1..Len(comps) : comps[i].ref = ref
CompIdx(comps, ref) == CHOOSE i \in 1..Len(comps) : comps[i].ref = ref
Comp(comps, ref) == comps[CompIdx(comps, ref)]

PinsOf(c, type) == IF type = "input" THEN c.inputPins ELSE c.outputPins

HasPin(comps, p) ==
    /\ HasComp(comps, p.comp)
    /\ p.index \in 1..Len(PinsOf(Comp(comps, p.comp), p.type))

PinAt(comps, p) == PinsOf(Comp(comps, p.comp), p.type)[p.index]

WritePin(comps, p, pin) ==
    LET ci == CompIdx(comps, p.comp)
    IN IF p.type = "input"
       THEN [comps EXCEPT ![ci].inputPins[p.index] = pin]
       ELSE [comps EXCEPT ![ci].outputPins[p.index] = pin]

\* a getValue that returns the stored value of any pin, wired or not
GetValueStored(comps, p) == Stored(PinAt(comps, p))

\* Pin.getValue
GetValue(comps, p) ==
    LET pin == PinAt(comps, p)
    IN IF p.type = "input" /\ Len(pin.connectedWires) = 0 THEN Bool(FALSE) ELSE Stored(pin)

RECURSIVE SetValue(_, _, _)
RECURSIVE Propagate(_, _, _, _)
\* a setValue that writes and propagates whether or not the value changes
SetValueAlways(comps, p, v) ==
    IF ~HasPin(comps, p) THEN comps
    ELSE LET pin == PinAt(comps, p)
             c1 == WritePin(comps, p, [pin EXCEPT !.value = v.value,
                                                  !.undefined = v.undefined])
         IN IF p.type = "output"
            THEN Propagate(c1, pin.connectedWires, p, v)
            ELSE c1

\* a setValue that stores the value and hands it to no wire
SetValueStoreOnly(comps, p, v) ==
    IF ~HasPin(comps, p) THEN comps
    ELSE WritePin(comps, p, [PinAt(comps, p) EXCEPT !.value = v.value,
                                                    !.undefined = v.undefined])

\* Pin.setValue
SetValue(comps, p, v) ==
    IF ~HasPin(comps, p) THEN comps
    ELSE LET pin == PinAt(comps, p)
         IN IF Stored(pin) = v THEN comps
            ELSE LET c1 == WritePin(comps, p, [pin EXCEPT !.value = v.value,
                                                         !.undefined = v.undefined])
                 IN IF p.type = "output"
                    THEN Propagate(c1, pin.connectedWires, p, v)
                    ELSE c1

\* a forEach that stops after the first wire
PropagateFirst(comps, ws, self, v) ==
    IF ws = <<>> THEN comps
    ELSE IF Head(ws).fromPin = self THEN SetValue(comps, Head(ws).toPin, v) ELSE comps

\* the connectedWires.forEach of Pin.setValue
Propagate(comps, ws, self, v) ==
    IF ws = <<>> THEN comps
    ELSE LET w == Head(ws)
             c1 == IF w.fromPin = self THEN SetValue(comps, w.toPin, v) ELSE comps
         IN Propagate(c1, Tail(ws), self, v)

\* Pin.connectWire
ConnectWire(comps, p, w) ==
    IF ~HasPin(comps, p) THEN comps
    ELSE LET pin == PinAt(comps, p)
         IN IF w \in Range(pin.connectedWires) THEN comps
            ELSE WritePin(comps, p, [pin EXCEPT !.connectedWires = Append(@, w)])

\* a disconnectWire that leaves the pin's value as it is
DisconnectWireKeepsValue(comps, p, w) ==
    IF ~HasPin(comps, p) THEN comps
    ELSE LET pin == PinAt(comps, p)
             index == IndexOf(pin.connectedWires, w)
         IN IF index > 0
            THEN WritePin(comps, p, [pin EXCEPT !.connectedWires = RemoveAt(@, index)])
            ELSE comps

\* Pin.disconnectWire
DisconnectWire(comps, p, w) ==
    IF ~HasPin(comps, p) THEN comps
    ELSE LET pin == PinAt(comps, p)
             index == IndexOf(pin.connectedWires, w)
         IN IF index > 0
            THEN WritePin(comps, p,
                   [pin EXCEPT !.connectedWires = RemoveAt(@, index),
                               !.value = IF p.type = "input" THEN FALSE ELSE @,
                               !.undefined = IF p.type = "input" THEN FALSE ELSE @])
            ELSE comps

----------------------------------------------------------------------------
(* Wire *)

\* the wire object as the pins hold it: identity and immutable endpoints
WireHandle(w) == [ref |-> w.ref, fromPin |-> w.fromPin, toPin |-> w.toPin]

\* Wire constructor: registers the wire with both endpoint pins
NewWire(comps, w) ==
    ConnectWire(ConnectWire(comps, w.fromPin, WireHandle(w)), w.toPin, WireHandle(w))

\* Wire.disconnect
WireDisconnect(comps, w) ==
    DisconnectWire(DisconnectWire(comps, w.fromPin, WireHandle(w)), w.toPin, WireHandle(w))

----------------------------------------------------------------------------
(* Component.evaluate of each variant, and GenericComponent.update *)

\* gate logic in which XOR is the inclusive or
BoolFnInclusive(type, a, b) ==
    CASE type = "AND" -> a /\ b
      [] type = "OR" -> a \/ b
      [] type = "XOR" -> a \/ b
      [] type = "NAND" -> ~(a /\ b)
      [] type = "NOR" -> ~(a \/ b)
      [] type = "NOT" -> ~a
      [] OTHER -> FALSE

\* evaluate() of ANDGate, ORGate, NOTGate, XORGate, NANDGate, NORGate on input
\* pins reading a and b (NOTGate has the one input pin)
BoolFn(type, a, b) ==
    CASE type = "AND" -> a /\ b
      [] type = "OR" -> a \/ b
      [] type = "XOR" -> a # b
      [] type = "NAND" -> ~(a /\ b)
      [] type = "NOR" -> ~(a \/ b)
      [] type = "NOT" -> ~a
      [] OTHER -> FALSE

InPin(ref, i) == PinRef(ref, "input", i)
OutPin(ref, i) == PinRef(ref, "output", i)

\* the value the gate writes, of what its input pins read now: AND and OR
\* hand on an operand of && and || as it is, XOR compares with !==, the
\* others negate
GateResult(comps, ref) ==
    LET type == Comp(comps, ref).type
        a == GetValue(comps, InPin(ref, 1))
        b == IF type = "NOT" THEN Bool(FALSE) ELSE GetValue(comps, InPin(ref, 2))
    IN CASE type = "AND" /\ (a.undefined \/ (a.value /\ b.undefined)) -> Undefined
         [] type = "OR" /\ ~a.value /\ b.undefined -> Undefined
         [] type = "XOR" /\ a.undefined # b.undefined -> Bool(TRUE)
         [] OTHER -> Bool(BoolFn(type, a.value, b.value))

\* false || pin.getValue() || ... over the input pins from the i-th on
RECURSIVE OrOfInputs(_, _, _)
OrOfInputs(comps, ref, i) ==
    LET n == Len(Comp(comps, ref).inputPins)
    IN IF i > n THEN Bool(FALSE)
       ELSE IF GetValue(comps, InPin(ref, i)).value \/ i = n
            THEN GetValue(comps, InPin(ref, i))
            ELSE OrOfInputs(comps, ref, i + 1)

\* state.value as logic.code, logic.update and logic.onClick read it
StateValue(state) ==
    IF state.kind = "object" /\ "value" \in state.keys THEN Bool(state.value) ELSE Undefined

\* state.value = v: on an object the key is set (an undefined value is held
\* as a key the object lacks); on a primitive the assignment has no effect
AssignStateValue(state, v) ==
    IF state.kind # "object" THEN state
    ELSE [state EXCEPT !.value = v.value,
                       !.keys = IF v.undefined THEN @ \ {"value"} ELSE @ \cup {"value"}]

\* The result of one evaluate() call: the circuit's components afterwards and
\* whether an exception left the call.
Done(comps) == [components |-> comps, thrown |-> FALSE]

\* SubcircuitComponent.evaluate without a circuitInstance: the OR of the input
\* pins onto output pin 0
FallbackEvaluate(comps, ref) ==
    LET c == Comp(comps, ref)
    IN Done(IF Len(c.outputPins) > 0
            THEN SetValue(comps, OutPin(ref, 1), OrOfInputs(comps, ref, 1))
            ELSE comps)

\* GenericComponent.evaluate: logic.code runs inside try/catch, so a failure
\* of the code ends the call normally, with whatever the code wrote before it.
\* (An instance with a live circuitInstance is evaluated by SubcircuitEvaluate;
\* the circuits evaluated here hold none.)
EvaluateComponent(comps, ref) ==
    LET c == Comp(comps, ref)
    IN CASE c.type = "SUBCIRCUIT" /\ c.circuitInstance = NoName ->
              FallbackEvaluate(comps, ref)
         [] c.type \in {"INPUT", "CLOCK", "ASTABLE", "PUSH_BUTTON"} ->
              Done(SetValue(comps, OutPin(ref, 1), StateValue(c.state)))
         [] c.type \in GateTypes ->
              Done(SetValue(comps, OutPin(ref, 1), GateResult(comps, ref)))
         [] c.type = "FAULTY_EARLY" -> Done(comps)
         [] c.type = "FAULTY_LATE" ->
              Done(SetValue(comps, OutPin(ref, 1), Bool(~GetValue(comps, InPin(ref, 1)).value)))
         [] OTHER -> Done(comps)

\* an update whose clock toggles only after more than half a period
UpdateComponentLate(comps, ref, timestamp) ==
    LET ci == CompIdx(comps, ref)
        c == comps[ci]
        flipped == AssignStateValue(c.state, Bool(~StateValue(c.state).value))
    IN CASE c.type = "CLOCK" ->
              IF /\ c.state.kind = "object"
                 /\ {"lastToggle", "period"} \subseteq c.state.keys
                 /\ 2 * (timestamp - c.state.lastToggle) > c.state.period
              THEN SetValue([comps EXCEPT ![ci].state =
                                [flipped EXCEPT !.lastToggle = timestamp]],
                            OutPin(ref, 1), StateValue(flipped))
              ELSE comps
         [] c.type = "ASTABLE" -> [comps EXCEPT ![ci].state = flipped]
         [] OTHER -> comps

\* GenericComponent.update: logic.update, when the definition has one
UpdateComponent(comps, ref, timestamp) ==
    LET ci == CompIdx(comps, ref)
        c == comps[ci]
        flipped == AssignStateValue(c.state, Bool(~StateValue(c.state).value))
    IN CASE c.type = "CLOCK" ->
              IF /\ c.state.kind = "object"
                 /\ {"lastToggle", "period"} \subseteq c.state.keys
                 /\ 2 * (timestamp - c.state.lastToggle) >= c.state.period
              THEN SetValue([comps EXCEPT ![ci].state =
                                [flipped EXCEPT !.lastToggle = timestamp]],
                            OutPin(ref, 1), StateValue(flipped))
              ELSE comps
         [] c.type = "ASTABLE" -> [comps EXCEPT ![ci].state = flipped]
         [] OTHER -> comps

\* OutputPin.getValue / GenericComponent.getValue
ComponentGetValue(comps, ref) ==
    IF Len(Comp(comps, ref).inputPins) > 0 THEN GetValue(comps, InPin(ref, 1)) ELSE Bool(FALSE)

----------------------------------------------------------------------------
(* Evaluation order resolver *)

Refs(comps) == [i \in 1..Len(comps) |-> comps[i].ref]

\* the identity of a component object constructed now: one that no component
\* of the circuit and no wire end of the circuit has
FreshRef(comps, ws) ==
    LET used == Range(Refs(comps))
                \cup {ws[i].fromPin.comp : i \in 1..Len(ws)}
                \cup {ws[i].toPin.comp : i \in 1..Len(ws)}
    IN CHOOSE r \in 1..(Cardinality(used) + 1) :
          r \notin used /\ \A q \in 1..(r - 1) : q \in used

\* the adjacency list: for each component, the destination components of the
\* wires leaving it, in wire-list order
RECURSIVE Neighbors(_, _, _)
Neighbors(refs, ws, c) ==
    IF ws = <<>> THEN <<>>
    ELSE LET w == Head(ws)
             from == w.fromPin.comp
             to == w.toPin.comp
         IN (IF from = c /\ from \in Range(refs) /\ to \in Range(refs) THEN <<to>> ELSE <<>>)
            \o Neighbors(refs, Tail(ws), c)

RECURSIVE Visit(_, _, _, _)
RECURSIVE VisitEach(_, _, _, _)

\* a visit that records the component before its successors
VisitPreorder(refs, ws, c, st) ==
    IF c \in st.visited THEN st
    ELSE VisitEach(refs, ws, Neighbors(refs, ws, c),
                   [visited |-> st.visited \cup {c}, result |-> <<c>> \o st.result])

\* a visit that records a component again each time a wire leads back to it
VisitRecordAgain(refs, ws, c, st) ==
    IF c \in st.visited THEN [st EXCEPT !.result = <<c>> \o @]
    ELSE LET st1 == [st EXCEPT !.visited = @ \cup {c}]
             st2 == VisitEach(refs, ws, Neighbors(refs, ws, c), st1)
         IN [st2 EXCEPT !.result = <<c>> \o @]

\* the DFS visit closure: st = [visited, result]
Visit(refs, ws, c, st) ==
    IF c \in st.visited THEN st
    ELSE LET st1 == [st EXCEPT !.visited = @ \cup {c}]
             st2 == VisitEach(refs, ws, Neighbors(refs, ws, c), st1)
         IN [st2 EXCEPT !.result = <<c>> \o @]

VisitEach(refs, ws, cs, st) ==
    IF cs = <<>> THEN st
    ELSE VisitEach(refs, ws, Tail(cs), Visit(refs, ws, Head(cs), st))

\* Simulator.topologicalSort
TopologicalSort(comps, ws) ==
    VisitEach(Refs(comps), ws, Refs(comps), [visited |-> {}, result |-> <<>>]).result

\* SubcircuitComponent.topologicalSort (the same algorithm over circuitInstance)
SubTopologicalSort(comps, ws) ==
    VisitEach(Refs(comps), ws, Refs(comps), [visited |-> {}, result |-> <<>>]).result

----------------------------------------------------------------------------
(* Simulator *)

\* ordered.forEach(component => component.evaluate()): an exception leaving
\* one evaluate() call ends the forEach
RECURSIVE EvaluateEach(_, _, _)
EvaluateEach(comps, order, calls) ==
    IF order = <<>> THEN [components |-> comps, calls |-> calls, thrown |-> FALSE]
    ELSE LET r == EvaluateComponent(comps, Head(order))
             log == Append(calls, <<"evaluate", Head(order)>>)
         IN IF r.thrown
            THEN [components |-> r.components, calls |-> log, thrown |-> TRUE]
            ELSE EvaluateEach(r.components, Tail(order), log)

\* Simulator.evaluate
\* a pass that runs over the order twice
SimEvaluateTwice(comps, ws) ==
    LET first == EvaluateEach(comps, TopologicalSort(comps, ws), <<>>)
    IN IF first.thrown THEN first
       ELSE EvaluateEach(first.components, TopologicalSort(comps, ws), first.calls)

SimEvaluate(comps, ws) == EvaluateEach(comps, TopologicalSort(comps, ws), <<>>)

\* the "Update clocks" forEach of Simulator.loop
RECURSIVE UpdateClocks(_, _, _, _)
UpdateClocks(comps, i, timestamp, calls) ==
    IF i > Len(comps) THEN [components |-> comps, calls |-> calls]
    ELSE IF comps[i].type = "CLOCK"
         THEN UpdateClocks(UpdateComponent(comps, comps[i].ref, timestamp), i + 1,
                           timestamp, Append(calls, <<"update", comps[i].ref>>))
         ELSE UpdateClocks(comps, i + 1, timestamp, calls)

\* requestAnimationFrame: returns a handle no queued callback uses (the caller
\* stores it in animationId, the only place that holds a handle)
RequestAnimationFrame(queue) ==
    CHOOSE id \in 1..(Cardinality(queue) + 1) : id \notin queue

\* What the last operation did: whether the loop body ran, the update() and
\* evaluate() calls it made on components, in call order, whether an
\* exception left it, whether it scheduled a frame, whether it cancelled one,
\* and the circuit name it was given.
Obs(op, looped, calls, thrown, scheduled) ==
    [op |-> op, looped |-> looped, calls |-> calls, thrown |-> thrown,
     scheduled |-> scheduled, cancelled |-> FALSE, name |-> NoName]

\* the components a call log names under one kind of call, in call order
Called(calls, kind) ==
    LET hits == SelectSeq(calls, LAMBDA c : c[1] = kind)
    IN [i \in 1..Len(hits) |-> hits[i][2]]

\* Simulator.loop(timestamp); queue is what the browser still holds
Loop(op, timestamp, queue) ==
    IF ~running'
    THEN /\ pendingFrames' = queue
         /\ obs' = Obs(op, FALSE, <<>>, FALSE, FALSE)
         /\ UNCHANGED <<components, animationId>>
    ELSE LET u == UpdateClocks(components, 1, timestamp, <<>>)
             e == SimEvaluate(u.components, wires)
         IN /\ components' = e.components
            /\ IF e.thrown
               THEN /\ pendingFrames' = queue
                    /\ UNCHANGED animationId
               ELSE /\ animationId' = RequestAnimationFrame(queue)
                    /\ pendingFrames' = queue \cup {RequestAnimationFrame(queue)}
            /\ obs' = Obs(op, TRUE, u.calls \o e.calls, e.thrown, ~e.thrown)

\* a start that enters the loop whether or not the simulator is running
StartAlways ==
    /\ running' = TRUE
    /\ Loop("start", now, pendingFrames)
    /\ UNCHANGED <<wires, inst, now, appVars>>

\* Simulator.start
Start ==
    /\ IF running
       THEN /\ UNCHANGED <<components, running, animationId, pendingFrames>>
            /\ obs' = Obs("start", FALSE, <<>>, FALSE, FALSE)
       ELSE /\ running' = TRUE
            /\ Loop("start", now, pendingFrames)
    /\ UNCHANGED <<wires, inst, now, appVars>>

\* a stop that clears the running flag and the stored handle but leaves the
\* queued callback with the browser
StopKeepsFrame ==
    /\ running' = FALSE
    /\ animationId' = Null
    /\ obs' = Obs("stop", FALSE, <<>>, FALSE, FALSE)
    /\ UNCHANGED <<components, wires, inst, pendingFrames, now, appVars>>

\* Simulator.stop
Stop ==
    /\ running' = FALSE
    /\ IF animationId # Null
       THEN /\ pendingFrames' = pendingFrames \ {animationId}
            /\ animationId' = Null
       ELSE UNCHANGED <<animationId, pendingFrames>>
    /\ obs' = [Obs("stop", FALSE, <<>>, FALSE, FALSE) EXCEPT
                  !.cancelled = animationId \in pendingFrames]
    /\ UNCHANGED <<components, wires, inst, now, appVars>>

\* the browser runs a queued frame callback: (t) => this.loop(t)
Frame ==
    /\ \E id \in pendingFrames :
         /\ running' = running
         /\ Loop("frame", now, pendingFrames \ {id})
    /\ UNCHANGED <<wires, inst, now, appVars>>

\* Simulator.evaluate / Simulator.step called from outside the loop
Evaluate ==
    LET e == SimEvaluate(components, wires)
    IN /\ components' = e.components
       /\ obs' = Obs("evaluate", FALSE, e.calls, e.thrown, FALSE)
       /\ UNCHANGED <<wires, inst, simVars, appVars>>

\* time passes between events
Tick ==
    /\ now < MaxTime
    /\ now' = now + 1
    /\ UNCHANGED <<components, wires, inst, running, animationId, pendingFrames, obs, appVars>>

----------------------------------------------------------------------------
(* InteractionManager: the handlers that edit the simulated circuit *)

OutputPinRefs(comps) ==
    {OutPin(comps[i].ref, k) : i \in 1..Len(comps), k \in 1..2} \cap
    {p \in [comp : Range(Refs(comps)), type : {"output"}, index : 1..2] : HasPin(comps, p)}

InputPinRefs(comps) ==
    {p \in [comp : Range(Refs(comps)), type : {"input"}, index : 1..2] : HasPin(comps, p)}

\* the identity of a new wire object: endpoints, and a number telling it from
\* the other wires between the same two pins
FreshWireRef(ws, from, to) ==
    CHOOSE r \in 1..(Len(ws) + 1) :
        \A i \in 1..Len(ws) : ~(ws[i].fromPin = from /\ ws[i].toPin = to /\ ws[i].ref = r)

\* a wire completion that accepts any pin other than wireStartPin as endPin
OnMouseUpAnyPin ==
    /\ Len(wires) < MaxWires
    /\ \E wireStartPin \in OutputPinRefs(components),
          endPin \in InputPinRefs(components) \cup OutputPinRefs(components) :
         /\ endPin # wireStartPin
         /\ ~\E i \in 1..Len(wires) :
               wires[i].fromPin = wireStartPin /\ wires[i].toPin = endPin
         /\ LET wire == [ref |-> FreshWireRef(wires, wireStartPin, endPin),
                         id |-> FreshWireRef(wires, wireStartPin, endPin),
                         fromPin |-> wireStartPin, toPin |-> endPin]
                c1 == NewWire(components, wire)
                c2 == SetValue(c1, endPin, GetValue(c1, wireStartPin))
                e == SimEvaluate(c2, Append(wires, wire))
            IN /\ wires' = Append(wires, wire)
               /\ components' = e.components
               /\ obs' = Obs("evaluate", FALSE, e.calls, e.thrown, FALSE)
    /\ UNCHANGED <<inst, simVars, appVars>>

\* InteractionManager.onMouseUp completing a wire drawn from wireStartPin
\* (an output pin, set by onMouseDown) to endPin
OnMouseUpWire ==
    /\ Len(wires) < MaxWires
    /\ \E wireStartPin \in OutputPinRefs(components), endPin \in InputPinRefs(components) :
         /\ ~\E i \in 1..Len(wires) :
               wires[i].fromPin = wireStartPin /\ wires[i].toPin = endPin
         /\ LET wire == [ref |-> FreshWireRef(wires, wireStartPin, endPin),
                         id |-> FreshWireRef(wires, wireStartPin, endPin),
                         fromPin |-> wireStartPin, toPin |-> endPin]
                c1 == NewWire(components, wire)
                c2 == SetValue(c1, endPin, GetValue(c1, wireStartPin))
                e == SimEvaluate(c2, Append(wires, wire))
            IN /\ wires' = Append(wires, wire)
               /\ components' = e.components
               /\ obs' = Obs("evaluate", FALSE, e.calls, e.thrown, FALSE)
    /\ UNCHANGED <<inst, simVars, appVars>>

\* a removeWire that takes the wire out of the list and leaves the pins alone
RemoveWireListOnly(comps, ws, w) ==
    LET index == IndexOf(ws, w)
    IN [components |-> comps,
        wires |-> IF index > 0 THEN RemoveAt(ws, index) ELSE ws]

\* Circuit.removeWire
RemoveWire(comps, ws, w) ==
    LET index == IndexOf(ws, w)
    IN [components |-> WireDisconnect(comps, w),
        wires |-> IF index > 0 THEN RemoveAt(ws, index) ELSE ws]

\* InteractionManager.onKeyDown, Delete or Backspace, with one wire selected
OnKeyDownDelete ==
    /\ \E i \in 1..Len(wires) :
         LET r == RemoveWire(components, wires, wires[i])
             e == SimEvaluate(r.components, r.wires)
         IN /\ wires' = r.wires
            /\ components' = e.components
            /\ obs' = Obs("evaluate", FALSE, e.calls, e.thrown, FALSE)
    /\ UNCHANGED <<inst, simVars, appVars>>

\* InteractionManager.onDoubleClick when getComponentAtPoint finds the i-th
\* component: an INPUT is toggled while the simulation runs (toggle() ->
\* onClick() flips state.value and re-evaluates the component); any other
\* double-click leaves the circuit as it is and, in edit mode, shows the
\* properties panel
DoubleClick(i) ==
    LET ref == components[i].ref
    IN /\ IF components[i].type = "INPUT" /\ running
          THEN LET c1 == [components EXCEPT ![i].state =
                              AssignStateValue(@, Bool(~StateValue(@).value))]
                   r == EvaluateComponent(c1, ref)
               IN /\ components' = r.components
                  /\ obs' = Obs("doubleClick", FALSE,
                                <<<<"click", ref>>, <<"toggle", ref>>, <<"evaluate", ref>>>>,
                                FALSE, FALSE)
          ELSE /\ components' = components
               /\ obs' = Obs("doubleClick", FALSE,
                             <<<<"click", ref>>>> \o
                             (IF running THEN <<>> ELSE <<<<"show", ref>>>>),
                             FALSE, FALSE)
       /\ UNCHANGED <<wires, inst, simVars, appVars>>

\* a double-click on any component
OnDoubleClick == \E i \in 1..Len(components) : DoubleClick(i)

\* the double-clicks that change the circuit: on an INPUT, while the
\* simulation runs
ToggleInput ==
    \E i \in 1..Len(components) :
        /\ components[i].type = "INPUT"
        /\ running
        /\ DoubleClick(i)

----------------------------------------------------------------------------
(* Component factories *)

CircuitNames == {"main", "A"}

\* the registry id / palette type of the subcircuit called name
SubType(name) == "SUBCIRCUIT_" \o name

\* type.startsWith('SUBCIRCUIT_')
IsSubType(type) == \E n \in CircuitNames : type = SubType(n)

\* type.substring('SUBCIRCUIT_'.length)
SubName(type) == CHOOSE n \in CircuitNames : type = SubType(n)

\* Map.has / Map.get on the circuits map (a sequence in insertion order)
HasCircuit(cs, key) == \E k \in 1..Len(cs) : cs[k].key = key
GetCircuit(cs, key) == cs[CHOOSE k \in 1..Len(cs) : cs[k].key = key]

\* Map.set: a new key goes last, an existing key keeps its place
MapSet(cs, key, circuit) ==
    IF HasCircuit(cs, key)
    THEN [k \in 1..Len(cs) |-> IF cs[k].key = key THEN circuit ELSE cs[k]]
    ELSE Append(cs, circuit)

\* Map.delete
MapDelete(cs, key) == SelectSeq(cs, LAMBDA c : c.key # key)

\* a constructor whose fallback, with no circuitInstance, makes a single input pin
SubcircuitComponentOneInput(ref, id, x, y, circuitName, hasInstance, instanceComps) ==
    [ref |-> ref, id |-> id, type |-> "SUBCIRCUIT", x |-> x, y |-> y, label |-> "",
     circuitName |-> circuitName,
     circuitInstance |-> IF hasInstance THEN circuitName ELSE NoName,
     state |-> [kind |-> "undefined", keys |-> {}, value |-> FALSE, lastToggle |-> 0,
                period |-> 0],
     inputPins |-> [i \in 1..(IF hasInstance
                              THEN Len(SelectIdx(instanceComps, 1, "INPUT")) ELSE 1)
                      |-> NewPin],
     outputPins |-> [i \in 1..(IF hasInstance
                               THEN Len(SelectIdx(instanceComps, 1, "OUTPUT")) ELSE 1)
                       |-> NewPin]]

\* SubcircuitComponent constructor: the type tag is always 'SUBCIRCUIT'; pins
\* from the INPUT / OUTPUT components of circuitInstance, or the 2-in/1-out
\* fallback when there is none. hasInstance tells whether circuits.get found
\* the definition; instanceComps are its components then.
SubcircuitComponent(ref, id, x, y, circuitName, hasInstance, instanceComps) ==
    [ref |-> ref, id |-> id, type |-> "SUBCIRCUIT", x |-> x, y |-> y, label |-> "",
     circuitName |-> circuitName,
     circuitInstance |-> IF hasInstance THEN circuitName ELSE NoName,
     state |-> UndefinedState,
     inputPins |-> [i \in 1..(IF hasInstance
                              THEN Len(SelectIdx(instanceComps, 1, "INPUT")) ELSE 2)
                      |-> NewPin],
     outputPins |-> [i \in 1..(IF hasInstance
                               THEN Len(SelectIdx(instanceComps, 1, "OUTPUT")) ELSE 1)
                       |-> NewPin]]

\* new SubcircuitComponent(x, y, name, circuits.get(name))
InstanceOf(cs, ref, id, x, y, name) ==
    SubcircuitComponent(ref, id, x, y, name, HasCircuit(cs, name),
                        IF HasCircuit(cs, name) THEN GetCircuit(cs, name).components
                        ELSE <<>>)

\* ComponentRegistry.create: <<>> is null
RegistryCreate(reg, type, ref, id, x, y) ==
    IF type \notin reg THEN <<>>
    ELSE IF type \in BuiltinTypes THEN <<NewComponent(ref, id, type, x, y)>>
    ELSE <<SubcircuitComponent(ref, id, x, y, NoName, FALSE, <<>>)>>

\* App.createComponent, the factory handed to Circuit.deserialize
CreateComponent(cs, reg, type, ref, id, x, y, circuitName) ==
    IF IsSubType(type)
    THEN <<InstanceOf(cs, ref, id, x, y,
                      IF circuitName # NoName THEN circuitName ELSE SubName(type))>>
    ELSE RegistryCreate(reg, type, ref, id, x, y)

----------------------------------------------------------------------------
(* Serialization *)

\* Component.serialize / SubcircuitComponent.serialize; keys lists the keys
\* the data object has
SerializeComponent(c) ==
    [keys |-> {"id", "type", "x", "y", "label"}
              \cup (IF c.state.kind # "undefined" THEN {"state"} ELSE {})
              \cup (IF c.type = "SUBCIRCUIT" THEN {"circuitName"} ELSE {}),
     id |-> c.id, type |-> c.type, x |-> c.x, y |-> c.y, label |-> c.label,
     state |-> c.state,
     circuitName |-> IF c.type = "SUBCIRCUIT" THEN c.circuitName ELSE NoName]

\* Wire.serialize: endpoints as owner id and 0-based pin index
SerializeWire(comps, w) ==
    [id |-> w.id,
     from |-> [componentId |-> Comp(comps, w.fromPin.comp).id,
               pinIndex |-> w.fromPin.index - 1,
               pinType |-> "output"],
     to |-> [componentId |-> Comp(comps, w.toPin.comp).id,
             pinIndex |-> w.toPin.index - 1,
             pinType |-> "input"]]

\* Circuit.serialize
Serialize(circuit) ==
    [name |-> circuit.name,
     isSubcircuit |-> circuit.isSubcircuit,
     components |-> [i \in 1..Len(circuit.components) |->
                        SerializeComponent(circuit.components[i])],
     wires |-> [i \in 1..Len(circuit.wires) |->
                   SerializeWire(circuit.components, circuit.wires[i])]]

\* an assignment of the saved object in place of the merge
ObjectReplace(target, source) ==
    IF source.kind # "object" THEN target ELSE source

\* Object.assign(target, source) on two state values
ObjectAssign(target, source) ==
    IF source.kind # "object" THEN target
    ELSE [kind |-> "object",
          keys |-> target.keys \cup source.keys,
          value |-> IF "value" \in source.keys THEN source.value ELSE target.value,
          lastToggle |-> IF "lastToggle" \in source.keys THEN source.lastToggle
                         ELSE target.lastToggle,
          period |-> IF "period" \in source.keys THEN source.period ELSE target.period]

\* the body of data.components.forEach for one compData: factory, fallback,
\* then id, label and state onto the new component. <<>> when none was built.
DeserializeComponent(compData, cs, reg, ref, id) ==
    LET made == CreateComponent(cs, reg, compData.type, ref, id, compData.x, compData.y,
                                compData.circuitName)
        component == IF made = <<>> /\ IsSubType(compData.type)
                     THEN <<InstanceOf(cs, ref, id, compData.x, compData.y,
                                       IF compData.circuitName # NoName
                                       THEN compData.circuitName
                                       ELSE SubName(compData.type))>>
                     ELSE made
    IN IF component = <<>> THEN <<>>
       ELSE LET c == component[1]
            IN <<[c EXCEPT !.id = compData.id,
                           !.label = compData.label,
                           !.state = IF "state" \in compData.keys
                                     THEN IF c.state.kind = "object"
                                          THEN ObjectAssign(c.state, compData.state)
                                          ELSE compData.state
                                     ELSE @]>>

\* data.components.forEach: every constructor call takes one id from
\* Component.nextId, whether or not its component is kept
RECURSIVE DeserializeComponents(_, _, _, _, _, _)
DeserializeComponents(datas, i, cs, reg, comps, id) ==
    IF i > Len(datas) THEN [components |-> comps, nextId |-> id]
    ELSE LET built == DeserializeComponent(datas[i], cs, reg, Len(comps) + 1, id)
         IN DeserializeComponents(datas, i + 1, cs, reg, comps \o built,
                                  id + Len(built))

\* componentMap.get(id): the last component built with that id
MapGet(comps, id) ==
    IF \E i \in 1..Len(comps) : comps[i].id = id
    THEN <<comps[CHOOSE i \in 1..Len(comps) :
                    comps[i].id = id /\ \A j \in (i + 1)..Len(comps) : comps[j].id # id]>>
    ELSE <<>>

RECURSIVE DeserializeWires(_, _, _, _)

\* a data.wires.forEach that rebuilds a wire whenever both components exist,
\* without looking for the pins
DeserializeWiresAnyPin(datas, i, comps, ws) ==
    IF i > Len(datas) THEN [components |-> comps, wires |-> ws]
    ELSE LET fromComp == MapGet(comps, datas[i].from.componentId)
             toComp == MapGet(comps, datas[i].to.componentId)
         IN IF fromComp # <<>> /\ toComp # <<>>
            THEN LET fromPin == OutPin(fromComp[1].ref, datas[i].from.pinIndex + 1)
                     toPin == InPin(toComp[1].ref, datas[i].to.pinIndex + 1)
                     wire == [ref |-> FreshWireRef(ws, fromPin, toPin),
                              id |-> datas[i].id,
                              fromPin |-> fromPin, toPin |-> toPin]
                 IN DeserializeWires(datas, i + 1, NewWire(comps, wire), Append(ws, wire))
            ELSE DeserializeWires(datas, i + 1, comps, ws)

\* data.wires.forEach: a wire is rebuilt when both components and both pins exist
DeserializeWires(datas, i, comps, ws) ==
    IF i > Len(datas) THEN [components |-> comps, wires |-> ws]
    ELSE LET fromComp == MapGet(comps, datas[i].from.componentId)
             toComp == MapGet(comps, datas[i].to.componentId)
         IN IF /\ fromComp # <<>>
               /\ toComp # <<>>
               /\ datas[i].from.pinIndex + 1 \in 1..Len(fromComp[1].outputPins)
               /\ datas[i].to.pinIndex + 1 \in 1..Len(toComp[1].inputPins)
            THEN LET fromPin == OutPin(fromComp[1].ref, datas[i].from.pinIndex + 1)
                     toPin == InPin(toComp[1].ref, datas[i].to.pinIndex + 1)
                     wire == [ref |-> FreshWireRef(ws, fromPin, toPin),
                              id |-> datas[i].id,
                              fromPin |-> fromPin, toPin |-> toPin]
                 IN DeserializeWires(datas, i + 1, NewWire(comps, wire), Append(ws, wire))
            ELSE DeserializeWires(datas, i + 1, comps, ws)

\* Circuit.deserialize(data, circuits, componentFactory) on the circuit given
Deserialize(circuit, data, cs, reg, id) ==
    LET c == DeserializeComponents(data.components, 1, cs, reg, <<>>, id)
        w == DeserializeWires(data.wires, 1, c.components, <<>>)
    IN [circuit |-> [circuit EXCEPT !.components = w.components, !.wires = w.wires],
        nextId |-> c.nextId]

----------------------------------------------------------------------------
(* SubcircuitComponent *)

\* the wire that attaches a boundary input pin to its driver in the parent circuit
ParentWire(i) == [ref |-> 0, fromPin |-> PinRef(0, "output", 1), toPin |-> PinRef(0, "input", i)]

\* SubcircuitComponent constructor / setupPins: one input pin per INPUT
\* component and one output pin per OUTPUT component of circuitInstance
NewSubcircuitComponent(comps) ==
    [inputPins |-> [i \in 1..Len(SelectIdx(comps, 1, "INPUT")) |->
                      [NewPin EXCEPT !.connectedWires = <<ParentWire(i)>>]],
     outputPins |-> [i \in 1..Len(SelectIdx(comps, 1, "OUTPUT")) |-> NewPin]]

\* Pin.getValue of a boundary input pin
BoundaryGetValue(pin) ==
    IF Len(pin.connectedWires) = 0 THEN Bool(FALSE) ELSE Stored(pin)

\* step 1 of SubcircuitComponent.evaluate: drive and evaluate the INPUT components
RECURSIVE MapInputs(_, _, _, _, _)
MapInputs(comps, inputs, i, pins, calls) ==
    IF i > Len(inputs) THEN [components |-> comps, calls |-> calls]
    ELSE IF i <= Len(pins)
         THEN LET ci == inputs[i]
                  s0 == IF comps[ci].state.kind = "object" THEN comps[ci].state
                        ELSE [UndefinedState EXCEPT !.kind = "object"]
                  c1 == [comps EXCEPT ![ci].state =
                            AssignStateValue(s0, BoundaryGetValue(pins[i]))]
                  r == EvaluateComponent(c1, comps[ci].ref)
              IN MapInputs(r.components, inputs, i + 1, pins,
                           Append(calls, <<"evaluate", comps[ci].ref>>))
         ELSE MapInputs(comps, inputs, i + 1, pins, calls)

\* step 2: the other components in resolver order
RECURSIVE EvaluateOthers(_, _, _)
EvaluateOthers(comps, order, calls) ==
    IF order = <<>> THEN [components |-> comps, calls |-> calls, thrown |-> FALSE]
    ELSE IF Comp(comps, Head(order)).type # "INPUT"
         THEN LET r == EvaluateComponent(comps, Head(order))
                  log == Append(calls, <<"evaluate", Head(order)>>)
              IN IF r.thrown
                 THEN [components |-> r.components, calls |-> log, thrown |-> TRUE]
                 ELSE EvaluateOthers(r.components, Tail(order), log)
         ELSE EvaluateOthers(comps, Tail(order), calls)

\* step 3: the OUTPUT components' values onto the boundary output pins
MapOutputs(comps, pins) ==
    LET outputs == SelectIdx(comps, 1, "OUTPUT")
    IN [i \in 1..Len(pins) |->
          IF i <= Len(outputs)
          THEN LET v == ComponentGetValue(comps, comps[outputs[i]].ref)
               IN [pins[i] EXCEPT !.value = v.value, !.undefined = v.undefined]
          ELSE pins[i]]

\* SubcircuitComponent.evaluate with a live circuitInstance
SubcircuitEvaluate(comps, ws, instance) ==
    LET m == MapInputs(comps, SelectIdx(comps, 1, "INPUT"), 1, instance.inputPins, <<>>)
        e == EvaluateOthers(m.components, SubTopologicalSort(m.components, ws), m.calls)
    IN [components |-> e.components,
        calls |-> e.calls,
        thrown |-> e.thrown,
        instance |-> IF e.thrown THEN instance
                     ELSE [instance EXCEPT !.outputPins = MapOutputs(e.components, @)]]

\* the parent circuit evaluates the instance
SubEvaluate ==
    LET r == SubcircuitEvaluate(components, wires, inst)
    IN /\ components' = r.components
       /\ inst' = r.instance
       /\ obs' = Obs("subevaluate", FALSE, r.calls, r.thrown, FALSE)
       /\ UNCHANGED <<wires, simVars, appVars>>

\* a driver in the parent circuit writes a boundary input pin (Pin.setValue)
DriveInstance ==
    /\ \E i \in 1..Len(inst.inputPins), v \in BOOLEAN :
         /\ BoundaryGetValue(inst.inputPins[i]) # Bool(v)
         /\ inst' = [inst EXCEPT !.inputPins[i].value = v,
                                 !.inputPins[i].undefined = FALSE]
    /\ obs' = Obs("drive", FALSE, <<>>, FALSE, FALSE)
    /\ UNCHANGED <<components, wires, simVars, appVars>>

----------------------------------------------------------------------------
(* Specification of the engine: one circuit edited, simulated and used as a *)
(* subcircuit definition                                                    *)

Layout(types) == [i \in 1..Len(types) |-> NewComponent(i, i - 1, types[i], 0, 0)]

EngineLayouts ==
    { <<"INPUT", "NOT", "NOT", "OUTPUT">> }

\* App constructor and init(): the map holds the main circuit, the registry
\* the definitions loaded from JSON
\* InteractionManager constructor: this.clipboard = { components: [], wires: [] }
EmptyClipboard == [components |-> <<>>, wires |-> <<>>]

AppIdle ==
    /\ clipboard = EmptyClipboard
    /\ clickedComponent = NoRef
    /\ circuits = <<NewCircuit("main", "Main Circuit")>>
    /\ currentCircuitName = "main"
    /\ simCircuit = "main"
    /\ registry = BuiltinTypes

SimIdle ==
    /\ running = FALSE
    /\ animationId = Null
    /\ pendingFrames = {}
    /\ now = 0

InitEngine ==
    /\ \E types \in EngineLayouts :
         /\ components = Layout(types)
         /\ inst = NewSubcircuitComponent(Layout(types))
         /\ nextId = Len(types)
    /\ wires = <<>>
    /\ SimIdle
    /\ obs = Obs("init", FALSE, <<>>, FALSE, FALSE)
    /\ AppIdle

NextEngine ==
    \/ OnMouseUpWire
    \/ OnKeyDownDelete
    \/ ToggleInput
    \/ Start
    \/ Stop
    \/ Evaluate

SpecEngine == InitEngine /\ [][NextEngine]_vars

----------------------------------------------------------------------------
(* Specification of a loaded circuit: a project file is opened and the      *)
(* circuit it describes is evaluated, pass after pass                       *)

MaxLoadWires == 3

LoadLayouts ==
    { <<"NOT", "NOT", "NOT">>, <<"OUTPUT", "NOT", "INPUT">> }

\* the component list of a file: what Component.serialize wrote for
\* components of these types, the INPUTs holding inputValue
ComponentData(types, inputValue) ==
    [i \in 1..Len(types) |->
        SerializeComponent(
            [NewComponent(i, i - 1, types[i], 0, 0) EXCEPT
                !.state.value = (types[i] = "INPUT" /\ inputValue)])]

\* the wire lists of a file over n components: any endpoints, in any order
WireEnds(n) ==
    [from : [componentId : 0..(n - 1), pinIndex : {0}],
     to : [componentId : 0..(n - 1), pinIndex : {0}]]

\* a file: one circuit, its wires numbered in list order
ProjectFile(types, inputValue, ends) ==
    [name |-> "main", isSubcircuit |-> FALSE,
     components |-> ComponentData(types, inputValue),
     wires |-> [i \in 1..Len(ends) |->
                  [id |-> i, from |-> ends[i].from, to |-> ends[i].to]]]

InitLoaded ==
    /\ \E types \in LoadLayouts, k \in 0..MaxLoadWires :
         \E inputValue \in {v \in BOOLEAN : v => "INPUT" \in Range(types)},
            ends \in [1..k -> WireEnds(Len(types))] :
              LET r == Deserialize(NewCircuit("main", "main"),
                                   ProjectFile(types, inputValue, ends),
                                   <<>>, BuiltinTypes, 0)
              IN /\ components = r.circuit.components
                 /\ wires = r.circuit.wires
                 /\ nextId = r.nextId
    /\ inst = NewSubcircuitComponent(<<>>)
    /\ circuits = <<NewCircuit("main", "main")>>
    /\ clipboard = EmptyClipboard
    /\ clickedComponent = NoRef
    /\ currentCircuitName = "main"
    /\ simCircuit = "main"
    /\ registry = BuiltinTypes
    /\ SimIdle
    /\ obs = Obs("init", FALSE, <<>>, FALSE, FALSE)

NextLoaded == Evaluate

SpecLoaded == InitLoaded /\ [][NextLoaded]_vars

----------------------------------------------------------------------------
(* The evaluation order *)

\* the wire graph: an edge per wire from the source to the destination component
Edge(ws, a, b) == \E i \in 1..Len(ws) : ws[i].fromPin.comp = a /\ ws[i].toPin.comp = b

\* b is reachable from a along one or more wires
RECURSIVE ReachSet(_, _)
ReachSet(ws, seen) ==
    LET more == seen \cup {ws[i].toPin.comp : i \in {j \in 1..Len(ws) : ws[j].fromPin.comp \in seen}}
    IN IF more = seen THEN seen ELSE ReachSet(ws, more)

Reaches(ws, a, b) ==
    b \in ReachSet(ws, {ws[i].toPin.comp : i \in {j \in 1..Len(ws) : ws[j].fromPin.comp = a}})

Acyclic(comps, ws) == \A i \in 1..Len(comps) : ~Reaches(ws, comps[i].ref, comps[i].ref)

Position(order, c) == CHOOSE k \in 1..Len(order) : order[k] = c

\* order holds every component exactly once
EachOnce(comps, order) ==
    /\ Len(order) = Len(comps)
    /\ \A i \in 1..Len(comps) :
          Cardinality({k \in 1..Len(order) : order[k] = comps[i].ref}) = 1

\* every wire's source comes before its destination
SourcesFirst(ws, order) ==
    \A i \in 1..Len(ws) :
        Position(order, ws[i].fromPin.comp) < Position(order, ws[i].toPin.comp)

\* C1: for an acyclic wire graph, topologicalSort() (the Simulator's and the
\* SubcircuitComponent's) returns every component of the circuit exactly once,
\* with the source of every wire before its destination.
C1_TopologicalOrder ==
    Acyclic(components, wires) =>
        /\ EachOnce(components, TopologicalSort(components, wires))
        /\ SourcesFirst(wires, TopologicalSort(components, wires))
        /\ SubTopologicalSort(components, wires) = TopologicalSort(components, wires)

\* an acyclic circuit of three components chained against the list order,
\* plus the wire that skips the middle one, has been evaluated
C1_Witness ==
    /\ Acyclic(components, wires)
    /\ Len(components) = 3
    /\ Edge(wires, 3, 2) /\ Edge(wires, 2, 1) /\ Edge(wires, 3, 1)
    /\ obs.op = "evaluate"
    /\ Called(obs.calls, "evaluate") = <<3, 2, 1>>

\* C9: one Simulator.evaluate() pass over any wire graph, cyclic or not, ends
\* having called evaluate() exactly once on each component of the circuit.
C9_EachEvaluatedOnce ==
    obs.op = "evaluate" =>
        /\ EachOnce(components, Called(obs.calls, "evaluate"))
        /\ Len(obs.calls) = Len(components)
        /\ ~obs.thrown

\* a pass over a circuit with a self-loop inside a larger cycle, in which
\* values cascaded: a gate's output pin is true afterwards
C9_Witness ==
    /\ obs.op = "evaluate"
    /\ Edge(wires, 1, 1) /\ Edge(wires, 1, 2) /\ Edge(wires, 2, 1)
    /\ \E i \in 1..Len(components) :
          components[i].type = "NOT" /\ components[i].inputPins[1].value
    /\ Len(obs.calls) = 3

----------------------------------------------------------------------------
(* Settling within one pass *)

\* every gate's output pin holds its function of what its input pins read
GatesSettled(comps) ==
    \A i \in 1..Len(comps) :
        comps[i].type \in GateTypes =>
            Stored(comps[i].outputPins[1]) = GateResult(comps, comps[i].ref)

\* the circuit is exactly the chain INPUT -> NOT -> NOT -> OUTPUT
IsNotChain(comps, ws) ==
    /\ Refs(comps) = <<1, 2, 3, 4>>
    /\ [i \in 1..4 |-> comps[i].type] = <<"INPUT", "NOT", "NOT", "OUTPUT">>
    /\ Len(ws) = 3
    /\ Edge(ws, 1, 2) /\ Edge(ws, 2, 3) /\ Edge(ws, 3, 4)

\* C2: after a Simulator.evaluate() pass over an acyclic circuit, whatever the
\* pins held before, every gate's output pin equals its function of its input
\* pins, and the chain INPUT(true) -> NOT -> NOT -> OUTPUT reads true at OUTPUT.
C2_SettledAfterOnePass ==
    (obs.op = "evaluate" /\ Acyclic(components, wires)) =>
        /\ GatesSettled(components)
        /\ (IsNotChain(components, wires) /\ components[1].state.value) =>
               ComponentGetValue(components, 4).value

\* the chain has been evaluated with the INPUT on
C2_Witness ==
    /\ obs.op = "evaluate"
    /\ IsNotChain(components, wires)
    /\ components[1].state.value

----------------------------------------------------------------------------
(* Specification of a subcircuit definition: the nested circuit is edited   *)
(* while an instance of it in a parent circuit is driven and evaluated      *)

SubLayouts ==
    { <<"INPUT", "INPUT", "AND", "OUTPUT">> }

InitSub ==
    /\ \E types \in SubLayouts :
         /\ components = Layout(types)
         /\ inst = NewSubcircuitComponent(Layout(types))
         /\ nextId = Len(types)
    /\ wires = <<>>
    /\ SimIdle
    /\ obs = Obs("init", FALSE, <<>>, FALSE, FALSE)
    /\ AppIdle

NextSub ==
    \/ OnMouseUpWire
    \/ OnKeyDownDelete
    \/ DriveInstance
    \/ SubEvaluate

SpecSub == InitSub /\ [][NextSub]_vars

\* the nested circuit is exactly INPUT, INPUT -> AND -> OUTPUT
IsNestedAnd(comps, ws) ==
    /\ Refs(comps) = <<1, 2, 3, 4>>
    /\ [i \in 1..4 |-> comps[i].type] = <<"INPUT", "INPUT", "AND", "OUTPUT">>
    /\ Len(ws) = 3
    /\ \E i \in 1..3 : ws[i].fromPin = OutPin(1, 1) /\ ws[i].toPin = InPin(3, 1)
    /\ \E i \in 1..3 : ws[i].fromPin = OutPin(2, 1) /\ ws[i].toPin = InPin(3, 2)
    /\ Edge(ws, 3, 4)

\* the boundary mapping: n-th INPUT driven with the n-th input pin, k-th
\* output pin holding what the k-th OUTPUT reads
BoundaryMapped(comps, instance) ==
    LET inputs == SelectIdx(comps, 1, "INPUT")
        outputs == SelectIdx(comps, 1, "OUTPUT")
    IN /\ \A n \in 1..Len(inputs) :
             n <= Len(instance.inputPins) =>
                 StateValue(comps[inputs[n]].state) = BoundaryGetValue(instance.inputPins[n])
       /\ \A k \in 1..Len(outputs) :
             k <= Len(instance.outputPins) =>
                 Stored(instance.outputPins[k]) =
                     ComponentGetValue(comps, comps[outputs[k]].ref)

\* C3: after SubcircuitComponent.evaluate() on an acyclic nested circuit the
\* boundary mapping holds, and for the nested 2-INPUT AND with one OUTPUT,
\* output pin 0 is true exactly when both input pins are true.
C3_BoundaryMapping ==
    (obs.op = "subevaluate" /\ Acyclic(components, wires)) =>
        /\ BoundaryMapped(components, inst)
        /\ IsNestedAnd(components, wires) =>
               (inst.outputPins[1].value <=>
                   (/\ BoundaryGetValue(inst.inputPins[1]).value
                    /\ BoundaryGetValue(inst.inputPins[2]).value))

\* the nested AND has been evaluated through an instance driven true/true
C3_Witness ==
    /\ obs.op = "subevaluate"
    /\ IsNestedAnd(components, wires)
    /\ BoundaryGetValue(inst.inputPins[1]).value
    /\ BoundaryGetValue(inst.inputPins[2]).value

----------------------------------------------------------------------------
(* Specification of the frame loop: a loaded circuit with clocks and other  *)
(* definitions is started, stopped and stepped by the browser's frames      *)

SimLayouts ==
    { <<"CLOCK", "NOT", "ASTABLE">>,
      <<"INPUT", "FAULTY_LATE", "NOT">>,
      <<"FAULTY_EARLY", "CLOCK", "INPUT">> }

\* wire lists along the component list: none, first to second, and on to the third
SimWireEnds ==
    LET end(a, b) == [from |-> [componentId |-> a, pinIndex |-> 0],
                      to |-> [componentId |-> b, pinIndex |-> 0]]
    IN { <<>>, <<end(0, 1)>>, <<end(0, 1), end(1, 2)>> }

InitSim ==
    /\ \E types \in SimLayouts, ends \in SimWireEnds :
         LET r == Deserialize(NewCircuit("main", "main"), ProjectFile(types, FALSE, ends),
                              <<>>, BuiltinTypes, 0)
         IN /\ components = r.circuit.components
            /\ wires = r.circuit.wires
            /\ nextId = r.nextId
    /\ inst = NewSubcircuitComponent(<<>>)
    /\ circuits = <<NewCircuit("main", "main")>>
    /\ clipboard = EmptyClipboard
    /\ clickedComponent = NoRef
    /\ currentCircuitName = "main"
    /\ simCircuit = "main"
    /\ registry = BuiltinTypes
    /\ SimIdle
    /\ obs = Obs("init", FALSE, <<>>, FALSE, FALSE)

NextSim ==
    \/ Start
    \/ Stop
    \/ Frame
    \/ Evaluate
    \/ OnDoubleClick
    \/ Tick

SpecSim == InitSim /\ [][NextSim]_vars

\* C6: once stop() has returned no frame callback is left with the browser,
\* so none runs update() or evaluate() until start() is called again: while
\* the simulator is stopped nothing is pending, and a frame that made calls
\* ran in a running simulator.
C6_NoFrameAfterStop ==
    /\ ~running => (pendingFrames = {} /\ animationId = Null)
    /\ (obs.op = "frame" /\ obs.calls # <<>>) => running

\* stop() was called on a running simulator after time had passed, and
\* cancelled the queued callback
C6_Witness ==
    /\ obs.op = "stop"
    /\ obs.cancelled
    /\ ~running
    /\ now > 0
    /\ pendingFrames = {}

\* C7: start() on a running simulator changes nothing, and at no time is
\* more than one frame callback pending.
C7_StartOnlyWhenStopped ==
    /\ [](Cardinality(pendingFrames) <= 1)
    /\ [][(running /\ obs'.op = "start") =>
             UNCHANGED <<components, wires, running, animationId, pendingFrames>>]_vars

\* start() was called on a running simulator whose next frame is queued
C7_Witness ==
    /\ obs.op = "start"
    /\ ~obs.looped
    /\ running
    /\ Cardinality(pendingFrames) = 1

\* the components whose definition has update logic, in list order
Updatable(comps) ==
    LET hits == SelectSeq(comps, LAMBDA c : HasUpdateLogic(c.type))
    IN [i \in 1..Len(hits) |-> hits[i].ref]

\* C8: each run of the loop body calls update() once on every component that
\* defines update logic, all of them before the evaluate() calls of the pass,
\* and schedules the next frame.
C8_UpdatesThenEvaluate ==
    obs.looped =>
        /\ obs.calls = [i \in 1..Len(Updatable(components)) |->
                           <<"update", Updatable(components)[i]>>]
                       \o [i \in 1..Len(components) |->
                              <<"evaluate", Called(obs.calls, "evaluate")[i]>>]
        /\ obs.scheduled

\* a frame ran over a circuit holding a component with update logic
C8_Witness ==
    /\ obs.op = "frame"
    /\ obs.looped
    /\ Updatable(components) # <<>>

FaultyTypes == {"FAULTY_EARLY", "FAULTY_LATE"}

\* C10: a pass over a circuit with a component whose evaluate logic fails
\* leaves that component's output pins as they were, still evaluates every
\* component of the order, and a running simulation schedules its next frame.
C10_FaultContained ==
    [][(obs'.op = "evaluate" \/ obs'.looped) =>
          /\ \A i \in 1..Len(components) :
                components[i].type \in FaultyTypes =>
                    \A k \in 1..Len(components[i].outputPins) :
                        components'[i].outputPins[k].value =
                            components[i].outputPins[k].value
          /\ EachOnce(components', Called(obs'.calls, "evaluate"))
          /\ obs'.looped => obs'.scheduled]_vars

\* a pass ran over a circuit holding a faulty component
C10_Witness ==
    /\ obs.op = "evaluate"
    /\ \E i \in 1..Len(components) : components[i].type \in FaultyTypes

----------------------------------------------------------------------------
(* App: the circuits map, the palette, load and subcircuit deletion *)

MaxComponents == 2
MaxId == 4

\* where a palette drop can land, after snapping to the grid
DropPoints == { <<0, 0>>, <<40, 20>> }

\* the palette entries dropped: a JSON definition and every subcircuit
Palette(reg) == {"INPUT"} \cup {t \in reg : IsSubType(t)}

\* the circuits map with the displayed circuit's entry holding its components and wires
FullCircuits ==
    [k \in 1..Len(circuits) |->
        IF circuits[k].key = simCircuit
        THEN [circuits[k] EXCEPT !.components = components, !.wires = wires]
        ELSE circuits[k]]

\* the map as the variable keeps it while the circuit called cur is displayed
Shelve(full, cur) ==
    [k \in 1..Len(full) |->
        IF full[k].key = cur
        THEN [full[k] EXCEPT !.components = <<>>, !.wires = <<>>]
        ELSE full[k]]

\* App.switchCircuit(name) on the map full: the old simulator is stopped, a
\* new one owns the circuit called name
SwitchCircuit(full, name) ==
    IF HasCircuit(full, name)
    THEN /\ currentCircuitName' = name
         /\ simCircuit' = name
         /\ circuits' = Shelve(full, name)
         /\ components' = GetCircuit(full, name).components
         /\ wires' = GetCircuit(full, name).wires
         /\ running' = FALSE
         /\ animationId' = Null
         /\ pendingFrames' = IF animationId # Null THEN pendingFrames \ {animationId}
                             ELSE pendingFrames
    ELSE /\ circuits' = Shelve(full, simCircuit)
         /\ UNCHANGED <<currentCircuitName, simCircuit, components, wires, running,
                        animationId,
                        pendingFrames>>

\* the circuit selector: App.switchCircuit on a circuit of the map
OnSelectCircuit ==
    /\ \E name \in CircuitNames :
         /\ HasCircuit(circuits, name)
         /\ name # currentCircuitName
         /\ SwitchCircuit(FullCircuits, name)
         /\ obs' = [Obs("switchCircuit", FALSE, <<>>, FALSE, FALSE) EXCEPT !.name = name]
    /\ UNCHANGED <<inst, now, registry, nextId, clipboard, clickedComponent>>

\* ComponentRegistry.registerSubcircuit / unregister
RegisterSubcircuit(reg, name) == reg \cup {SubType(name)}
Unregister(reg, id) == reg \ {id}

\* the New Circuit button with a name the map lacks: App.createNewCircuit
CreateNewCircuit ==
    /\ \E name \in CircuitNames :
         /\ ~HasCircuit(circuits, name)
         /\ LET circuit == [NewCircuit(name, name) EXCEPT !.isSubcircuit = (name # "main")]
            IN /\ SwitchCircuit(MapSet(FullCircuits, name, circuit), name)
               /\ registry' = IF name # "main" THEN RegisterSubcircuit(registry, name)
                              ELSE registry
         /\ obs' = [Obs("createNewCircuit", FALSE, <<>>, FALSE, FALSE) EXCEPT !.name = name]
    /\ UNCHANGED <<inst, now, nextId, clipboard, clickedComponent>>

\* InteractionManager.addComponent: a palette entry dropped on the canvas
AddComponent ==
    /\ Len(components) < MaxComponents
    /\ nextId < MaxId
    /\ \E type \in Palette(registry), at \in DropPoints :
         LET ref == FreshRef(components, wires)
             made == IF IsSubType(type)
                     THEN <<InstanceOf(FullCircuits, ref, nextId, at[1], at[2], SubName(type))>>
                     ELSE RegistryCreate(registry, type, ref, nextId, at[1], at[2])
         IN /\ components' = components \o made
            /\ nextId' = nextId + Len(made)
            /\ obs' = Obs("addComponent", FALSE, <<>>, FALSE, FALSE)
    /\ UNCHANGED <<wires, inst, simVars, circuits, currentCircuitName, simCircuit, registry, clipboard, clickedComponent>>

\* App.saveProject: the data object written to the file
SaveData ==
    [circuits |-> [k \in 1..Len(FullCircuits) |->
                      [name |-> FullCircuits[k].key,
                       isSubcircuit |-> FullCircuits[k].isSubcircuit,
                       data |-> Serialize(FullCircuits[k])]],
     currentCircuit |-> currentCircuitName]

\* data.circuits.forEach of App.loadProject: each circuit is rebuilt against
\* the circuits loaded before it, then set in the map and registered
RECURSIVE LoadCircuits(_, _, _, _, _)
LoadCircuits(datas, i, cs, reg, id) ==
    IF i > Len(datas) THEN [circuits |-> cs, registry |-> reg, nextId |-> id]
    ELSE LET fresh == [NewCircuit(datas[i].name, datas[i].name) EXCEPT
                          !.isSubcircuit = datas[i].isSubcircuit]
             r == Deserialize(fresh, datas[i].data, cs, reg, id)
         IN LoadCircuits(datas, i + 1, MapSet(cs, datas[i].name, r.circuit),
                         IF datas[i].isSubcircuit
                         THEN RegisterSubcircuit(reg, datas[i].name) ELSE reg,
                         r.nextId)

\* the components a load of data constructs
LoadSize(data) ==
    LET n[k \in 0..Len(data.circuits)] ==
            IF k = 0 THEN 0 ELSE n[k - 1] + Len(data.circuits[k].data.components)
    IN n[Len(data.circuits)]

\* App.loadProject on the file the project was last saved to
LoadProject ==
    /\ nextId + LoadSize(SaveData) <= MaxId
    /\ LET data == SaveData
           r == LoadCircuits(data.circuits, 1, <<>>, registry, nextId)
           target == IF HasCircuit(r.circuits, data.currentCircuit) THEN data.currentCircuit
                     ELSE IF HasCircuit(r.circuits, "main") THEN "main"
                     ELSE r.circuits[1].key
       IN /\ Len(r.circuits) > 0
          /\ SwitchCircuit(r.circuits, target)
          /\ registry' = r.registry
          /\ nextId' = r.nextId
    /\ obs' = Obs("loadProject", FALSE, <<>>, FALSE, FALSE)
    /\ UNCHANGED <<inst, now, clipboard, clickedComponent>>

\* the "is used" scan of App.deleteSubcircuit
IsUsed(full, name) ==
    \E k \in 1..Len(full) :
        /\ full[k].key # name
        /\ \E i \in 1..Len(full[k].components) :
              full[k].components[i].type = SubType(name)

\* App.deleteSubcircuit(name); confirmed is the user's answer to the modal
DeleteSubcircuit ==
    /\ \E name \in CircuitNames, confirmed \in BOOLEAN :
         /\ obs' = [Obs("deleteSubcircuit", FALSE, <<>>, FALSE, FALSE) EXCEPT !.name = name]
         /\ IF \/ ~HasCircuit(circuits, name)
               \/ ~GetCircuit(circuits, name).isSubcircuit
               \/ IsUsed(FullCircuits, name)
               \/ ~confirmed
            THEN UNCHANGED <<components, wires, simVars, circuits, currentCircuitName, simCircuit,
                             registry>>
            ELSE /\ registry' = Unregister(registry, SubType(name))
                 /\ IF currentCircuitName = name
                    THEN /\ SwitchCircuit(MapDelete(FullCircuits, name),
                                          IF HasCircuit(circuits, "main") THEN "main"
                                          ELSE MapDelete(FullCircuits, name)[1].key)
                         /\ UNCHANGED now
                    ELSE /\ circuits' = MapDelete(circuits, name)
                         /\ UNCHANGED <<components, wires, simVars, currentCircuitName, simCircuit>>
    /\ UNCHANGED <<inst, now, nextId, clipboard, clickedComponent>>

InitApp ==
    /\ components = <<>>
    /\ wires = <<>>
    /\ inst = NewSubcircuitComponent(<<>>)
    /\ nextId = 0
    /\ SimIdle
    /\ obs = Obs("init", FALSE, <<>>, FALSE, FALSE)
    /\ AppIdle

NextApp ==
    \/ CreateNewCircuit
    \/ OnSelectCircuit
    \/ AddComponent
    \/ LoadProject
    \/ DeleteSubcircuit

SpecApp == InitApp /\ [][NextApp]_vars

\* the instances of definition name held by the other circuits, each as
\* <<circuit key, position in the circuit, the component>>
InstancesOf(full, name) ==
    UNION { {<<full[k].key, i, full[k].components[i]>> :
                i \in {h \in 1..Len(full[k].components) :
                         /\ full[k].components[h].type = "SUBCIRCUIT"
                         /\ full[k].components[h].circuitName = name}} :
            k \in {j \in 1..Len(full) : full[j].key # name} }

\* C4: deleteSubcircuit(name) on a definition that another circuit holds an
\* instance of is refused: afterwards the definition is still in the circuits
\* map and the registry, and every instance is still in its circuit.
C4_DeletionRefused ==
    [][\A name \in CircuitNames :
          (/\ obs'.op = "deleteSubcircuit"
           /\ obs'.name = name
           /\ HasCircuit(circuits, name)
           /\ InstancesOf(FullCircuits, name) # {}) =>
              /\ HasCircuit(circuits', name)
              /\ SubType(name) \in registry'
              /\ InstancesOf(FullCircuits', name) = InstancesOf(FullCircuits, name)]_vars

\* deleteSubcircuit was called on a definition the main circuit holds an
\* instance of
C4_Witness ==
    /\ obs.op = "deleteSubcircuit"
    /\ \E i \in 1..Len(GetCircuit(FullCircuits, "main").components) :
          LET c == GetCircuit(FullCircuits, "main").components[i]
          IN c.type = "SUBCIRCUIT" /\ c.circuitName = obs.name

\* serialize, deserialize through the application's factory, serialize again
RoundTrip(circuit, full, reg, id) ==
    Serialize(Deserialize(NewCircuit(circuit.key, circuit.name), Serialize(circuit),
                          full, reg, id).circuit)

\* what the round trip is to preserve of a serialized circuit
Preserved(data) ==
    [components |-> [i \in 1..Len(data.components) |->
                        [id |-> data.components[i].id,
                         type |-> data.components[i].type,
                         x |-> data.components[i].x,
                         y |-> data.components[i].y,
                         hasState |-> "state" \in data.components[i].keys,
                         state |-> data.components[i].state]],
     wires |-> data.wires]

\* C5: for every circuit of the project, serialize() then deserialize()
\* through App.createComponent then serialize() gives back the same component
\* ids, types, positions and state and the same wire ids and endpoints.
C5_RoundTrip ==
    \A k \in 1..Len(FullCircuits) :
        Preserved(RoundTrip(FullCircuits[k], FullCircuits, registry, nextId)) =
            Preserved(Serialize(FullCircuits[k]))

\* a circuit holding an INPUT and a subcircuit instance
C5_Witness ==
    \E k \in 1..Len(FullCircuits) :
        /\ \E i \in 1..Len(FullCircuits[k].components) :
              FullCircuits[k].components[i].type = "SUBCIRCUIT"
        /\ \E i \in 1..Len(FullCircuits[k].components) :
              FullCircuits[k].components[i].type = "INPUT"

----------------------------------------------------------------------------
(* Change suppression in Pin.setValue *)

\* every pin of the circuit
AllPins(comps) ==
    {p \in [comp : Range(Refs(comps)), type : {"input", "output"}, index : 1..2] :
        HasPin(comps, p)}

\* Pin.setValue with its propagation counter: the components afterwards and
\* the pins setValue was called on downstream, in call order
RECURSIVE SetValueTraced(_, _, _, _)
RECURSIVE PropagateTraced(_, _, _, _, _)
SetValueTraced(comps, p, v, calls) ==
    IF ~HasPin(comps, p) THEN [components |-> comps, calls |-> calls]
    ELSE LET pin == PinAt(comps, p)
         IN IF Stored(pin) = v THEN [components |-> comps, calls |-> calls]
            ELSE LET c1 == WritePin(comps, p, [pin EXCEPT !.value = v.value,
                                                         !.undefined = v.undefined])
                 IN IF p.type = "output"
                    THEN PropagateTraced(c1, pin.connectedWires, p, v, calls)
                    ELSE [components |-> c1, calls |-> calls]

PropagateTraced(comps, ws, self, v, calls) ==
    IF ws = <<>> THEN [components |-> comps, calls |-> calls]
    ELSE LET w == Head(ws)
             r == IF w.fromPin = self
                  THEN SetValueTraced(comps, w.toPin, v, Append(calls, w.toPin))
                  ELSE [components |-> comps, calls |-> calls]
         IN PropagateTraced(r.components, Tail(ws), self, v, r.calls)

\* the pins at the far end of the wires leaving output pin p
Downstream(comps, p) ==
    {w.toPin : w \in {x \in Range(PinAt(comps, p).connectedWires) : x.fromPin = p}}

\* C11: setValue(v) on a pin that already holds v changes no pin of the
\* circuit and calls setValue on no downstream pin.
C11_ChangeSuppression ==
    \A p \in AllPins(components) :
        LET v == Stored(PinAt(components, p))
        IN /\ SetValue(components, p, v) = components
           /\ SetValueTraced(components, p, v, <<>>).calls = <<>>
           /\ SetValueTraced(components, p, v, <<>>).components = components

\* after a pass, an output pin is wired to an input pin that holds another
\* value: a propagation from it would change that pin
C11_Witness ==
    /\ obs.op = "evaluate"
    /\ \E p \in AllPins(components) :
          /\ p.type = "output"
          /\ \E q \in Downstream(components, p) :
                PinAt(components, q).value # PinAt(components, p).value

----------------------------------------------------------------------------
(* Disconnected input pins *)

\* the input pins of the circuit that no wire is connected to
OpenInputs(comps) ==
    {p \in AllPins(comps) : p.type = "input" /\ Len(PinAt(comps, p).connectedWires) = 0}

\* C12: getValue() of an input pin with no connected wire returns false,
\* whichever value the pin stores.
C12_DisconnectedInputIsLow ==
    \A p \in OpenInputs(components) :
        \A stored \in {Bool(TRUE), Bool(FALSE), Undefined} :
            GetValue(WritePin(components, p,
                              [PinAt(components, p) EXCEPT !.value = stored.value,
                                                           !.undefined = stored.undefined]),
                     p) = Bool(FALSE)

\* a pass ran over a circuit in which a NOT gate has no wire at its input:
\* it read false there and drives true
C12_Witness ==
    /\ obs.op = "evaluate"
    /\ \E i \in 1..Len(components) :
          /\ components[i].type = "NOT"
          /\ InPin(components[i].ref, 1) \in OpenInputs(components)
          /\ components[i].outputPins[1].value

----------------------------------------------------------------------------
(* Specification of a component under test: two INPUT components wired, or  *)
(* not, to the input pins of one gate, or of a subcircuit instance whose    *)
(* definition the project lacks; the inputs are toggled while the           *)
(* simulation runs                                                          *)

\* the types of the component under test
TestedTypes == GateTypes \cup {"SUBCIRCUIT_A"}

\* the wire lists of the file: each INPUT to its pin of the gate, or not
GateWireEnds ==
    LET end(a, k) == [from |-> [componentId |-> a, pinIndex |-> 0],
                      to |-> [componentId |-> 2, pinIndex |-> k]]
    IN { <<>>, <<end(0, 0)>>, <<end(1, 1)>>, <<end(0, 0), end(1, 1)>>, <<end(1, 0)>> }

\* a file with INPUT, INPUT and a gate of the type given; the INPUTs hold a and b
GateFile(type, a, b, ends) ==
    LET types == <<"INPUT", "INPUT", type>>
        data == ComponentData(types, FALSE)
    IN [name |-> "main", isSubcircuit |-> FALSE,
        components |-> [data EXCEPT ![1].state.value = a, ![2].state.value = b],
        wires |-> [i \in 1..Len(ends) |->
                     [id |-> i, from |-> ends[i].from, to |-> ends[i].to]]]

InitGates ==
    /\ \E type \in TestedTypes, a \in BOOLEAN, b \in BOOLEAN, ends \in GateWireEnds :
         LET r == Deserialize(NewCircuit("main", "main"), GateFile(type, a, b, ends),
                              <<>>, BuiltinTypes, 0)
         IN /\ components = r.circuit.components
            /\ wires = r.circuit.wires
            /\ nextId = r.nextId
    /\ inst = NewSubcircuitComponent(<<>>)
    /\ circuits = <<NewCircuit("main", "main")>>
    /\ clipboard = EmptyClipboard
    /\ clickedComponent = NoRef
    /\ currentCircuitName = "main"
    /\ simCircuit = "main"
    /\ registry = BuiltinTypes
    /\ SimIdle
    /\ obs = Obs("init", FALSE, <<>>, FALSE, FALSE)

NextGates ==
    \/ Start
    \/ Stop
    \/ Frame
    \/ Evaluate
    \/ OnDoubleClick

SpecGates == InitGates /\ [][NextGates]_vars

\* the textbook truth tables: the input combinations <<a, b>> for which the
\* gate's output is true (NOT looks at a only)
TruthTable(type) ==
    CASE type = "AND" -> { <<TRUE, TRUE>> }
      [] type = "OR" -> { <<TRUE, FALSE>>, <<FALSE, TRUE>>, <<TRUE, TRUE>> }
      [] type = "NOT" -> { <<FALSE, FALSE>>, <<FALSE, TRUE>> }
      [] type = "XOR" -> { <<TRUE, FALSE>>, <<FALSE, TRUE>> }
      [] type = "NAND" -> { <<FALSE, FALSE>>, <<TRUE, FALSE>>, <<FALSE, TRUE>> }
      [] type = "NOR" -> { <<FALSE, FALSE>> }

\* what the gate's input pins read: <<a, b>>, b false for a gate with one pin
InputsRead(comps, ref) ==
    <<GetValue(comps, InPin(ref, 1)).value,
      IF Len(Comp(comps, ref).inputPins) > 1 THEN GetValue(comps, InPin(ref, 2)).value
      ELSE FALSE>>

\* C13: for every combination of input pin values, evaluate() of an AND, OR,
\* NOT, XOR, NAND or NOR gate sets the output pin to the truth-table value.
C13_GateTruthTables ==
    \A i \in 1..Len(components) :
        components[i].type \in GateTypes =>
            LET ref == components[i].ref
                after == EvaluateComponent(components, ref).components
            IN /\ ~EvaluateComponent(components, ref).thrown
               /\ after[i].outputPins[1].value <=>
                      (InputsRead(components, ref) \in TruthTable(components[i].type))

\* an XOR gate has been evaluated with both of its input pins reading true
C13_Witness ==
    /\ obs.op \in {"evaluate", "frame"}
    /\ \E i \in 1..Len(components) :
          /\ components[i].type = "XOR"
          /\ InputsRead(components, components[i].ref) = <<TRUE, TRUE>>
          /\ ~components[i].outputPins[1].value

----------------------------------------------------------------------------
(* Specification of a clock under test: update(t) is called on a CLOCK with *)
(* timestamps that grow from call to call. Time is counted in units of      *)
(* 100 ms here.                                                             *)

MaxClockTime == 11

\* period = 1000 ms, the period a Clock is constructed with
ExamplePeriod == 10

ClockPeriods == {ClockPeriod, ExamplePeriod}

\* a file with a CLOCK of the period given wired to a NOT gate
ClockFile(period) ==
    LET data == ComponentData(<<"CLOCK", "NOT">>, FALSE)
    IN [name |-> "main", isSubcircuit |-> FALSE,
        components |-> [data EXCEPT ![1].state.period = period],
        wires |-> << [id |-> 1,
                      from |-> [componentId |-> 0, pinIndex |-> 0],
                      to |-> [componentId |-> 1, pinIndex |-> 0]] >>]

InitClock ==
    /\ \E period \in ClockPeriods :
         LET r == Deserialize(NewCircuit("main", "main"), ClockFile(period),
                              <<>>, BuiltinTypes, 0)
         IN /\ components = r.circuit.components
            /\ wires = r.circuit.wires
            /\ nextId = r.nextId
    /\ inst = NewSubcircuitComponent(<<>>)
    /\ circuits = <<NewCircuit("main", "main")>>
    /\ clipboard = EmptyClipboard
    /\ clickedComponent = NoRef
    /\ currentCircuitName = "main"
    /\ simCircuit = "main"
    /\ registry = BuiltinTypes
    /\ SimIdle
    /\ obs = Obs("init", FALSE, <<>>, FALSE, FALSE)

\* update(timestamp) on the clock; obs.calls keeps the history of the calls:
\* <<"update", t>> for each call, followed by <<"toggle", t>> when the call
\* flipped the clock's state
ClockUpdate ==
    /\ \E timestamp \in 0..MaxClockTime :
         /\ timestamp > now \/ (timestamp = now /\ obs.op = "init")
         /\ now' = timestamp
         /\ components' = UpdateComponent(components, components[1].ref, timestamp)
         /\ obs' = Obs("update", FALSE,
                       obs.calls \o <<<<"update", timestamp>>>>
                         \o (IF components'[1].state.value # components[1].state.value
                             THEN <<<<"toggle", timestamp>>>> ELSE <<>>),
                       FALSE, FALSE)
    /\ UNCHANGED <<wires, inst, running, animationId, pendingFrames, appVars>>

NextClock == ClockUpdate

SpecClock == InitClock /\ [][NextClock]_vars

\* the timestamps of the example, t = 0, 400, 600, 1000, 1100 ms, and those
\* at which the clock is to toggle
ExampleTimes == <<0, 4, 6, 10, 11>>
ExampleToggles == <<6, 11>>

\* C14: update(t) toggles the clock's state exactly when t - lastToggle >=
\* period / 2, setting lastToggle to t then and leaving the state alone
\* otherwise; with period 1000 and lastToggle 0 the calls at t = 0, 400, 600,
\* 1000, 1100 toggle at 600 and 1100 only.
C14_ClockToggle ==
    /\ [][obs'.op = "update" =>
            LET c == components[1]
                d == components'[1]
                t == now'
            IN IF 2 * (t - c.state.lastToggle) >= c.state.period
               THEN /\ d.state.value = ~c.state.value
                    /\ d.state.lastToggle = t
                    /\ d.outputPins[1].value = d.state.value
               ELSE d.state = c.state]_vars
    /\ []((/\ components[1].state.period = ExamplePeriod
           /\ Called(obs.calls, "update") = ExampleTimes)
             => Called(obs.calls, "toggle") = ExampleToggles)

\* the five calls of the example have been made on a clock of period 1000
C14_Witness ==
    /\ components[1].type = "CLOCK"
    /\ components[1].state.period = ExamplePeriod
    /\ Called(obs.calls, "update") = ExampleTimes
    /\ components[1].state.lastToggle = 11

----------------------------------------------------------------------------
(* Simulator.reset *)

\* component.state = false: the state object is replaced by the primitive,
\* and state.value of a primitive reads as undefined
PrimitiveFalse ==
    [kind |-> "boolean", keys |-> {}, value |-> FALSE, lastToggle |-> 0, period |-> 0]

\* pin.value = false for every pin of getAllPins()
ResetPins(pins) ==
    [i \in 1..Len(pins) |-> [pins[i] EXCEPT !.value = FALSE, !.undefined = FALSE]]

\* the boundary input pins after the parent's INPUT components, their state
\* now the primitive false, were evaluated: each wrote its state.value down
\* its wire
DrivenByReset(pins) ==
    [i \in 1..Len(pins) |->
        IF Len(pins[i].connectedWires) > 0
        THEN [pins[i] EXCEPT !.value = FALSE, !.undefined = TRUE]
        ELSE [pins[i] EXCEPT !.value = FALSE, !.undefined = FALSE]]

\* the components.forEach of Simulator.reset
ResetComponents(comps) ==
    [i \in 1..Len(comps) |->
        [comps[i] EXCEPT !.inputPins = ResetPins(@),
                         !.outputPins = ResetPins(@),
                         !.state = IF comps[i].type \in {"INPUT", "CLOCK"}
                                   THEN PrimitiveFalse ELSE @]]

\* Simulator.reset on the circuit comps, ws
SimReset(comps, ws) == SimEvaluate(ResetComponents(comps), ws)

\* Simulator.reset on a parent circuit that holds the instance, its input
\* pins wired to INPUT components of the parent: every pin of the parent is
\* set to false, the INPUTs' state to false, and the pass evaluates the
\* INPUTs and then the instance against the nested circuit comps, ws
ParentReset(comps, ws, instance) ==
    SubcircuitEvaluate(comps, ws,
                       [inputPins |-> DrivenByReset(instance.inputPins),
                        outputPins |-> ResetPins(instance.outputPins)])

\* the Reset button while the definition is displayed
Reset ==
    LET e == SimReset(components, wires)
    IN /\ components' = e.components
       /\ obs' = Obs("reset", FALSE, e.calls, e.thrown, FALSE)
       /\ UNCHANGED <<wires, inst, simVars, appVars>>

\* the Reset button while the parent circuit is displayed
ResetParent ==
    LET r == ParentReset(components, wires, inst)
    IN /\ components' = r.components
       /\ inst' = r.instance
       /\ obs' = Obs("resetParent", FALSE, r.calls, r.thrown, FALSE)
       /\ UNCHANGED <<wires, simVars, appVars>>

----------------------------------------------------------------------------
(* Specification of reset: a subcircuit definition is edited and reset, and *)
(* the parent circuit that holds an instance of it is evaluated and reset   *)

ResetLayouts ==
    { <<"INPUT", "NOT", "OUTPUT">> }

InitReset ==
    /\ \E types \in ResetLayouts :
         /\ components = Layout(types)
         /\ inst = NewSubcircuitComponent(Layout(types))
         /\ nextId = Len(types)
    /\ wires = <<>>
    /\ SimIdle
    /\ obs = Obs("init", FALSE, <<>>, FALSE, FALSE)
    /\ AppIdle

NextReset ==
    \/ OnMouseUpWire
    \/ OnKeyDownDelete
    \/ DriveInstance
    \/ SubEvaluate
    \/ Reset
    \/ ResetParent

SpecReset == InitReset /\ [][NextReset]_vars

\* C15: reset() is idempotent: right after a reset(), a second reset() on the
\* same simulator leaves every pin value and every component state as the
\* first left them.
C15_ResetIdempotent ==
    /\ obs.op = "reset" => SimReset(components, wires).components = components
    /\ obs.op = "resetParent" => ParentReset(components, wires, inst).instance = inst

\* reset() ran on a parent whose instance is of a definition with a feedback
\* wire
C15_Witness ==
    /\ obs.op = "resetParent"
    /\ ~Acyclic(components, wires)

----------------------------------------------------------------------------
(* Specification of opening a file that was not written by the application: *)
(* component types the registry lacks, wires to component ids and pin       *)
(* indexes that do not exist                                                *)

MaxFileWires == 2

\* the files' component lists; BOGUS is a type no definition has
FileLayouts ==
    { <<"INPUT", "BOGUS", "NOT">>, <<"NOT", "OUTPUT", "BOGUS">>, <<"INPUT", "NOT", "OUTPUT">> }

\* the endpoints a file's wire can name: a component of the file on pin 0,
\* the first component on a pin index no component has, and a component id
\* the file lacks
FileEnds ==
    {[componentId |-> c, pinIndex |-> 0] : c \in 0..3} \cup {[componentId |-> 0, pinIndex |-> 1]}

\* Circuit.deserialize of such a file into the empty main circuit of a
\* session that has built no component; obs.calls keeps the file
OpenFile ==
    /\ nextId = 0
    /\ Len(components) = 0
    /\ \E types \in FileLayouts, k \in 0..MaxFileWires :
         \E ends \in [1..k -> [from : FileEnds, to : FileEnds]] :
            LET data == ProjectFile(types, FALSE, ends)
                r == Deserialize(NewCircuit("main", "main"), data, <<>>, registry, nextId)
            IN /\ components' = r.circuit.components
               /\ wires' = r.circuit.wires
               /\ nextId' = r.nextId
               /\ obs' = Obs("deserialize", FALSE, <<<<"data", data>>>>, FALSE, FALSE)
    /\ UNCHANGED <<inst, simVars, circuits, currentCircuitName, simCircuit, registry, clipboard, clickedComponent>>

InitFile == InitApp

NextFile ==
    \/ OpenFile
    \/ Evaluate

SpecFile == InitFile /\ [][NextFile]_vars

\* the component entries of a file whose type has a definition, in file order
KnownEntries(data, reg) == SelectSeq(data.components, LAMBDA c : c.type \in reg)

\* the file names an existing pin: a kept component with that id and a pin
\* index within the pins its definition gives it
EndExists(data, reg, end, type) ==
    \E i \in 1..Len(KnownEntries(data, reg)) :
        /\ KnownEntries(data, reg)[i].id = end.componentId
        /\ end.pinIndex < (IF type = "output"
                           THEN NumOutputs(KnownEntries(data, reg)[i].type)
                           ELSE NumInputs(KnownEntries(data, reg)[i].type))

\* the wire entries of a file with both endpoints existing, in file order
SoundWires(data, reg) ==
    SelectSeq(data.wires, LAMBDA w : /\ EndExists(data, reg, w.from, "output")
                                     /\ EndExists(data, reg, w.to, "input"))

\* the file the last deserialize was given
LoadedData == Called(obs.calls, "data")[1]

\* C16: deserialize skips a component of unknown type and a wire that names
\* a missing component id or pin index, and nothing else: the load completes
\* with every other component and wire built, and no wire in the circuit
\* lacks an endpoint.
C16_BadEntriesSkipped ==
    obs.op = "deserialize" =>
        /\ [i \in 1..Len(components) |-> [id |-> components[i].id, type |-> components[i].type]]
             = [i \in 1..Len(KnownEntries(LoadedData, registry)) |->
                   [id |-> KnownEntries(LoadedData, registry)[i].id,
                    type |-> KnownEntries(LoadedData, registry)[i].type]]
        /\ [i \in 1..Len(wires) |-> wires[i].id]
             = [i \in 1..Len(SoundWires(LoadedData, registry)) |->
                   SoundWires(LoadedData, registry)[i].id]
        /\ \A i \in 1..Len(wires) :
              /\ HasPin(components, wires[i].fromPin)
              /\ HasPin(components, wires[i].toPin)
              /\ WireHandle(wires[i]) \in Range(PinAt(components, wires[i].fromPin).connectedWires)
              /\ WireHandle(wires[i]) \in Range(PinAt(components, wires[i].toPin).connectedWires)

\* a file with a component of unknown type, a wire to a missing component id
\* and a sound wire has been loaded
C16_Witness ==
    /\ obs.op = "deserialize"
    /\ Len(KnownEntries(LoadedData, registry)) < Len(LoadedData.components)
    /\ Len(LoadedData.wires) = 2
    /\ Len(wires) = 1
    /\ \E i \in 1..2 : LoadedData.wires[i].to.componentId = 3

----------------------------------------------------------------------------
(* Subcircuit instances without a definition *)

\* the positions of the instances in comps that have no circuitInstance
Dangling(comps) ==
    {i \in 1..Len(comps) : comps[i].type = "SUBCIRCUIT" /\ comps[i].circuitInstance = NoName}

\* C17: a SubcircuitComponent built without a live circuit definition has two
\* input pins and one output pin, and its evaluate() ends normally with
\* output pin 0 holding the OR of what the input pins read.
C17_DanglingFallback ==
    \A i \in Dangling(components) :
        /\ Len(components[i].inputPins) = 2
        /\ Len(components[i].outputPins) = 1
        /\ LET ref == components[i].ref
               r == EvaluateComponent(components, ref)
           IN /\ ~r.thrown
              /\ r.components[i].outputPins[1].value =
                     (\/ GetValue(components, InPin(ref, 1)).value
                      \/ GetValue(components, InPin(ref, 2)).value)

\* a pass ran over an instance without a definition while exactly one of its
\* input pins read true, and its output pin is true
C17_Witness ==
    /\ obs.op \in {"evaluate", "frame"}
    /\ \E i \in Dangling(components) :
          /\ GetValue(components, InPin(components[i].ref, 1)).value
               # GetValue(components, InPin(components[i].ref, 2)).value
          /\ components[i].outputPins[1].value

----------------------------------------------------------------------------
(* Double-click on a component *)

\* the component the last double-click landed on
Clicked == Called(obs.calls, "click")[1]

\* C18: a double-click on an INPUT or on a CLOCK toggles the state of that
\* component: after the handler, state.value of the component is the negation
\* of what it was before.
C18_DoubleClickToggles ==
    [][(obs'.op = "doubleClick"
        /\ now' = now
        /\ Comp(components, Called(obs'.calls, "click")[1]).type \in {"INPUT", "CLOCK"})
       => Comp(components', Called(obs'.calls, "click")[1]).state.value
            = ~Comp(components, Called(obs'.calls, "click")[1]).state.value]_vars

\* a CLOCK and an INPUT have each been double-clicked: here the last
\* double-click was on a CLOCK
C18_Witness ==
    /\ obs.op = "doubleClick"
    /\ Comp(components, Clicked).type = "CLOCK"

----------------------------------------------------------------------------
(* Editing a circuit: selection, delete, the clipboard, and a project that  *)
(* is saved, then opened again in a newly loaded page                       *)

MaxEditComponents == 2
MaxEditId == 3
MaxCoord == 40

\* Array.prototype.filter by position: the elements of s at the positions in
\* sel, in list order
RECURSIVE Filter(_, _, _)
Filter(s, sel, i) ==
    IF i > Len(s) THEN <<>>
    ELSE (IF i \in sel THEN <<s[i]>> ELSE <<>>) \o Filter(s, sel, i + 1)

\* doomed.forEach(wire => this.removeWire(wire))
RECURSIVE RemoveWires(_, _, _)
RemoveWires(comps, ws, doomed) ==
    IF doomed = <<>> THEN [components |-> comps, wires |-> ws]
    ELSE LET r == RemoveWire(comps, ws, Head(doomed))
         IN RemoveWires(r.components, r.wires, Tail(doomed))

\* a removeComponent that splices the component out and leaves its wires
RemoveComponentOnly(comps, ws, ref) ==
    [components |-> IF HasComp(comps, ref) THEN RemoveAt(comps, CompIdx(comps, ref))
                    ELSE comps,
     wires |-> ws]

\* Circuit.removeComponent
RemoveComponent(comps, ws, ref) ==
    LET connectedWires == SelectSeq(ws, LAMBDA w : w.fromPin.comp = ref \/ w.toPin.comp = ref)
        r == RemoveWires(comps, ws, connectedWires)
    IN [components |-> IF HasComp(r.components, ref)
                       THEN RemoveAt(r.components, CompIdx(r.components, ref))
                       ELSE r.components,
        wires |-> r.wires]

\* selected.components.forEach(component => this.circuit.removeComponent(component))
RECURSIVE RemoveComponents(_, _, _)
RemoveComponents(comps, ws, doomed) ==
    IF doomed = <<>> THEN [components |-> comps, wires |-> ws]
    ELSE LET r == RemoveComponent(comps, ws, Head(doomed).ref)
         IN RemoveComponents(r.components, r.wires, Tail(doomed))

\* the removal Delete and cutSelected share: the selected wires first, then
\* the selected components
RemoveSelected(comps, ws, selC, selW) ==
    LET w == RemoveWires(comps, ws, Filter(ws, selW, 1))
    IN RemoveComponents(w.components, w.wires, Filter(comps, selC, 1))

\* the wires that touch a selected component and are not selected themselves
Incident(comps, ws, selC, selW) ==
    {i \in 1..Len(ws) \ selW :
        \E k \in selC : ws[i].fromPin.comp = comps[k].ref \/ ws[i].toPin.comp = comps[k].ref}

\* what a removal of the selection reports: the components removed, then the
\* number of unselected wires that touched them
RemovalLog(comps, ws, selC, selW) ==
    [i \in 1..Len(Filter(comps, selC, 1)) |-> <<"removeComponent", Filter(comps, selC, 1)[i].ref>>]
    \o <<<<"incident", Cardinality(Incident(comps, ws, selC, selW))>>>>

\* the selections made: components alone or with the wires among them, a
\* wire alone, and everything (Ctrl+A); each as <<positions of the selected
\* components, positions of the selected wires>>
Selections(comps, ws) ==
    LET among(selC) == {i \in 1..Len(ws) :
                          /\ \E k \in selC : ws[i].fromPin.comp = comps[k].ref
                          /\ \E k \in selC : ws[i].toPin.comp = comps[k].ref}
    IN {<<selC, {}>> : selC \in SUBSET (1..Len(comps))}
       \cup {<<selC, among(selC)>> : selC \in SUBSET (1..Len(comps))}
       \cup {<<{}, {i}>> : i \in 1..Len(ws)}
       \cup {<<1..Len(comps), 1..Len(ws)>>}

\* InteractionManager.onKeyDown, Delete or Backspace, with a selection
DeleteSelected ==
    /\ \E sel \in Selections(components, wires) :
         LET selC == sel[1]
             selW == sel[2]
             r == RemoveSelected(components, wires, selC, selW)
             e == SimEvaluate(r.components, r.wires)
         IN /\ wires' = r.wires
            /\ components' = e.components
            /\ obs' = Obs("delete", FALSE, RemovalLog(components, wires, selC, selW),
                          e.thrown, FALSE)
    /\ UNCHANGED <<inst, simVars, appVars>>

\* InteractionManager.cloneComponent: a new object of the same definition at
\* the same place, with a copy of the state object and the label. (A
\* subcircuit clone is handed the circuitInstance of the original, found
\* here under its name.)
CloneComponent(cs, component, ref, id) ==
    IF component.type = "SUBCIRCUIT"
    THEN [(IF component.circuitInstance # NoName
           THEN InstanceOf(cs, ref, id, component.x, component.y, component.circuitName)
           ELSE SubcircuitComponent(ref, id, component.x, component.y,
                                    component.circuitName, FALSE, <<>>))
            EXCEPT !.label = component.label]
    ELSE [NewComponent(ref, id, component.type, component.x, component.y) EXCEPT
            !.state = IF component.state.kind = "object" THEN component.state ELSE @,
            !.label = component.label]

\* the clipboard entry of a selected wire: its ends as positions in the
\* selected components and 0-based pin indexes
ClipWire(selected, w) ==
    [fromCompIndex |-> IndexOf([i \in 1..Len(selected) |-> selected[i].ref], w.fromPin.comp) - 1,
     fromPinIndex |-> w.fromPin.index - 1,
     toCompIndex |-> IndexOf([i \in 1..Len(selected) |-> selected[i].ref], w.toPin.comp) - 1,
     toPinIndex |-> w.toPin.index - 1]

\* InteractionManager.copySelected: the clipboard afterwards and the ids the
\* clones took; nothing happens when no component is selected
CopySelected(clip, cs, comps, ws, selC, selW, id) ==
    LET selected == Filter(comps, selC, 1)
        kept == SelectSeq(Filter(ws, selW, 1),
                          LAMBDA w : /\ \E i \in 1..Len(selected) : selected[i].ref = w.fromPin.comp
                                     /\ \E i \in 1..Len(selected) : selected[i].ref = w.toPin.comp)
    IN IF Len(selected) = 0 THEN [clipboard |-> clip, nextId |-> id]
       ELSE [clipboard |->
                [components |-> [i \in 1..Len(selected) |->
                                    CloneComponent(cs, selected[i], 0, id + i - 1)],
                 wires |-> [i \in 1..Len(kept) |-> ClipWire(selected, kept[i])]],
             nextId |-> id + Len(selected)]

\* Ctrl+C
Copy ==
    /\ \E sel \in Selections(components, wires) :
         /\ nextId + Cardinality(sel[1]) <= MaxEditId
         /\ LET selC == sel[1]
                selW == sel[2]
                c == CopySelected(clipboard, FullCircuits, components, wires, selC, selW, nextId)
            IN /\ clipboard' = c.clipboard
               /\ nextId' = c.nextId
    /\ obs' = Obs("copy", FALSE, <<>>, FALSE, FALSE)
    /\ UNCHANGED <<engineVars, simVars, circuits, currentCircuitName, simCircuit, registry,
                   clickedComponent>>

\* Ctrl+X: InteractionManager.cutSelected
Cut ==
    /\ \E sel \in Selections(components, wires) :
         /\ nextId + Cardinality(sel[1]) <= MaxEditId
         /\ LET selC == sel[1]
                selW == sel[2]
                c == CopySelected(clipboard, FullCircuits, components, wires, selC, selW, nextId)
                r == RemoveSelected(components, wires, selC, selW)
                e == SimEvaluate(r.components, r.wires)
            IN /\ clipboard' = c.clipboard
               /\ nextId' = c.nextId
               /\ wires' = r.wires
               /\ components' = e.components
               /\ obs' = Obs("cut", FALSE, RemovalLog(components, wires, selC, selW),
                             e.thrown, FALSE)
    /\ UNCHANGED <<inst, simVars, circuits, currentCircuitName, simCircuit, registry,
                   clickedComponent>>

\* the first loop of paste: each clipboard component is cloned 40 pixels
\* down and to the right and added to the circuit; news collects the clones
RECURSIVE PasteComponents(_, _, _, _, _, _, _)
PasteComponents(clips, i, cs, comps, ws, id, news) ==
    IF i > Len(clips) THEN [components |-> comps, news |-> news]
    ELSE LET clone == CloneComponent(cs, clips[i], FreshRef(comps, ws), id + i - 1)
             newComp == [clone EXCEPT !.x = @ + 40, !.y = @ + 40]
         IN PasteComponents(clips, i + 1, cs, Append(comps, newComp), ws, id,
                            Append(news, newComp.ref))

\* the second loop of paste: the clipboard wires are rebuilt between the
\* clones, each new wire carrying the value of its source pin across
RECURSIVE PasteWires(_, _, _, _, _)
PasteWires(datas, i, news, comps, ws) ==
    IF i > Len(datas) THEN [components |-> comps, wires |-> ws]
    ELSE LET wireData == datas[i]
         IN IF /\ wireData.fromCompIndex + 1 \in 1..Len(news)
               /\ wireData.toCompIndex + 1 \in 1..Len(news)
               /\ HasPin(comps, OutPin(news[wireData.fromCompIndex + 1], wireData.fromPinIndex + 1))
               /\ HasPin(comps, InPin(news[wireData.toCompIndex + 1], wireData.toPinIndex + 1))
            THEN LET fromPin == OutPin(news[wireData.fromCompIndex + 1], wireData.fromPinIndex + 1)
                     toPin == InPin(news[wireData.toCompIndex + 1], wireData.toPinIndex + 1)
                     wire == [ref |-> FreshWireRef(ws, fromPin, toPin),
                              id |-> FreshWireRef(ws, fromPin, toPin),
                              fromPin |-> fromPin, toPin |-> toPin]
                     c1 == NewWire(comps, wire)
                     c2 == SetValue(c1, toPin, GetValue(c1, fromPin))
                 IN PasteWires(datas, i + 1, news, c2, Append(ws, wire))
            ELSE PasteWires(datas, i + 1, news, comps, ws)

\* Ctrl+V: InteractionManager.paste
Paste ==
    /\ Len(components) + Len(clipboard.components) <= MaxEditComponents
    /\ Len(wires) + Len(clipboard.wires) <= MaxWires
    /\ nextId + Len(clipboard.components) <= MaxEditId
    /\ \A i \in 1..Len(clipboard.components) : clipboard.components[i].x + 40 <= MaxCoord
    /\ IF Len(clipboard.components) = 0
       THEN /\ UNCHANGED <<components, wires, nextId>>
            /\ obs' = Obs("paste", FALSE, <<>>, FALSE, FALSE)
       ELSE LET c == PasteComponents(clipboard.components, 1, FullCircuits, components,
                                     wires, nextId, <<>>)
                w == PasteWires(clipboard.wires, 1, c.news, c.components, wires)
                e == SimEvaluate(w.components, w.wires)
            IN /\ components' = e.components
               /\ wires' = w.wires
               /\ nextId' = nextId + Len(clipboard.components)
               /\ obs' = Obs("paste", FALSE,
                             [i \in 1..Len(c.news) |-> <<"addComponent", c.news[i]>>],
                             e.thrown, FALSE)
    /\ UNCHANGED <<inst, simVars, circuits, currentCircuitName, simCircuit, registry, clipboard, clickedComponent>>

\* Circuit.clear on the displayed circuit
Clear ==
    /\ components' = <<>>
    /\ wires' = <<>>
    /\ obs' = Obs("clear", FALSE, <<>>, FALSE, FALSE)
    /\ UNCHANGED <<inst, simVars, appVars>>

\* Circuit.deserialize on the displayed circuit, given what its serialize()
\* returns: the step loadProject takes for each circuit of a file
DeserializeCircuit ==
    /\ nextId + Len(components) <= MaxEditId
    /\ LET data == Serialize(GetCircuit(FullCircuits, currentCircuitName))
           r == Deserialize(GetCircuit(FullCircuits, currentCircuitName), data,
                            FullCircuits, registry, nextId)
       IN /\ components' = r.circuit.components
          /\ wires' = r.circuit.wires
          /\ nextId' = r.nextId
          /\ obs' = Obs("deserialize", FALSE, <<<<"data", data>>>>, FALSE, FALSE)
    /\ UNCHANGED <<inst, simVars, circuits, currentCircuitName, simCircuit, registry, clipboard, clickedComponent>>

\* the project is saved, the page is loaded anew (Component.nextId = 0, the
\* built-in definitions, an empty clipboard), and App.loadProject opens the
\* saved file
ReopenProject ==
    /\ LET data == SaveData
           r == LoadCircuits(data.circuits, 1, <<>>, BuiltinTypes, 0)
           target == IF HasCircuit(r.circuits, data.currentCircuit) THEN data.currentCircuit
                     ELSE IF HasCircuit(r.circuits, "main") THEN "main"
                     ELSE r.circuits[1].key
       IN /\ Len(r.circuits) > 0
          /\ SwitchCircuit(r.circuits, target)
          /\ registry' = r.registry
          /\ nextId' = r.nextId
    /\ clipboard' = EmptyClipboard
    /\ clickedComponent' = NoRef
    /\ obs' = Obs("reopenProject", FALSE, <<>>, FALSE, FALSE)
    /\ UNCHANGED <<inst, now>>

EditLayouts == { <<"NOT">> }

InitEdit ==
    /\ \E types \in EditLayouts :
         /\ components = Layout(types)
         /\ nextId = Len(types)
    /\ inst = NewSubcircuitComponent(<<>>)
    /\ wires = <<>>
    /\ SimIdle
    /\ obs = Obs("init", FALSE, <<>>, FALSE, FALSE)
    /\ AppIdle

NextEdit ==
    \/ AddComponent
    \/ OnMouseUpWire
    \/ DeleteSelected
    \/ Copy
    \/ Cut
    \/ Paste
    \/ Clear
    \/ DeserializeCircuit

SpecEdit == InitEdit /\ [][NextEdit]_vars

\* the same start, with a project that is opened again in a new page
InitIds == InitEdit

NextIds ==
    \/ AddComponent
    \/ DeleteSelected
    \/ Copy
    \/ Paste
    \/ ReopenProject

SpecIds == InitIds /\ [][NextIds]_vars

\* C19: the components of a circuit have pairwise different ids, whatever
\* sequence of adding, deleting, pasting and loading a saved project followed
\* by adding led to it.
C19_IdsUnique ==
    \A i \in 1..Len(components), j \in 1..Len(components) :
        i # j => components[i].id # components[j].id

\* a saved project has been opened in a new page and a component added to
\* it afterwards: the newest component does not have the highest id
C19_Witness ==
    /\ obs.op \in {"addComponent", "paste"}
    /\ Len(components) >= 2
    /\ \E i \in 1..(Len(components) - 1) : components[i].id >= components[Len(components)].id

----------------------------------------------------------------------------
(* Wires and the components they end at *)

\* both ends of every wire of the circuit are pins of its components
WiresAttached(comps, ws) ==
    \A i \in 1..Len(ws) : HasPin(comps, ws[i].fromPin) /\ HasPin(comps, ws[i].toPin)

\* C20: after any sequence of addComponent, wire creation, removeWire,
\* removeComponent, delete, cut, paste, clear and deserialize, both end pins
\* of every wire in the wire list belong to components in the component list;
\* and removeComponent on any component leaves no wire that ends at it, keeps
\* every other wire, and takes the component out of the list.
C20_WireEndsInCircuit ==
    /\ WiresAttached(components, wires)
    /\ \A k \in 1..Len(components) :
          LET ref == components[k].ref
              r == RemoveComponent(components, wires, ref)
          IN /\ ~HasComp(r.components, ref)
             /\ Len(r.components) = Len(components) - 1
             /\ r.wires = SelectSeq(wires, LAMBDA w : w.fromPin.comp # ref /\ w.toPin.comp # ref)
             /\ WiresAttached(r.components, r.wires)

\* a component that had wires to other components has been deleted or cut,
\* and the circuit still holds a wire
C20_Witness ==
    /\ obs.op \in {"delete", "cut"}
    /\ Len(Called(obs.calls, "removeComponent")) > 0
    /\ Called(obs.calls, "incident")[1] > 0
    /\ Len(wires) > 0

----------------------------------------------------------------------------
(* Wire ends *)

\* the wires a pin lists are wires of the circuit that end at that pin, on
\* the side the pin's type names
ListedAtOwnEnd(comps, ws) ==
    \A p \in AllPins(comps) :
        \A k \in 1..Len(PinAt(comps, p).connectedWires) :
            LET h == PinAt(comps, p).connectedWires[k]
            IN /\ \E i \in 1..Len(ws) : WireHandle(ws[i]) = h
               /\ IF p.type = "output" THEN h.fromPin = p ELSE h.toPin = p

\* C21: every wire, whether drawn with the mouse, pasted or deserialized,
\* runs from an output pin to an input pin, and its ends never change once
\* it is constructed: the pins list it at the ends it was built with, and a
\* step only removes wires or adds new ones, the others staying as they were
\* and in their order.
C21_WireDirection ==
    /\ [](/\ \A i \in 1..Len(wires) :
               wires[i].fromPin.type = "output" /\ wires[i].toPin.type = "input"
          /\ ListedAtOwnEnd(components, wires))
    /\ [][SelectSeq(wires, LAMBDA w : \E j \in 1..Len(wires') : wires'[j] = w)
            = SelectSeq(wires', LAMBDA w : \E i \in 1..Len(wires) : wires[i] = w)]_vars

\* a wire has been pasted next to a wire drawn with the mouse
C21_Witness ==
    /\ obs.op = "paste"
    /\ Len(wires) >= 2
    /\ Len(components) = 2

----------------------------------------------------------------------------
(* Removing a wire *)

\* C22: after Circuit.removeWire(w), w is in the wire list of neither end pin
\* and not in the circuit's wire list, and the input-side pin stores false
\* and reads false, before any evaluate() pass.
C22_RemoveWireResets ==
    \A i \in 1..Len(wires) :
        LET w == wires[i]
            r == RemoveWire(components, wires, w)
        IN /\ WireHandle(w) \notin Range(PinAt(r.components, w.fromPin).connectedWires)
           /\ WireHandle(w) \notin Range(PinAt(r.components, w.toPin).connectedWires)
           /\ w \notin Range(r.wires)
           /\ Len(r.wires) = Len(wires) - 1
           /\ Stored(PinAt(r.components, w.toPin)) = Bool(FALSE)
           /\ GetValue(r.components, w.toPin) = Bool(FALSE)

\* after a wire was deleted and the pass that follows, the circuit holds a
\* wire into an input pin that stores true and has a second wire
C22_Witness ==
    /\ obs.op = "evaluate"
    /\ \E i \in 1..Len(wires) :
          /\ PinAt(components, wires[i].toPin).value
          /\ Len(PinAt(components, wires[i].toPin).connectedWires) >= 2

----------------------------------------------------------------------------
(* Propagation *)

\* C23: when setValue(v) changes an output pin, the input-side pin of every
\* wire connected to it stores v when setValue returns, and no other pin has
\* changed; a value written to an input pin reaches no other pin.
C23_ForwardPropagation ==
    \A p \in AllPins(components) :
        LET v == Bool(~PinAt(components, p).value)
            c == SetValue(components, p, v)
            reached == IF p.type = "output" THEN Downstream(components, p) ELSE {}
        IN /\ Stored(PinAt(c, p)) = v
           /\ \A q \in reached : Stored(PinAt(c, q)) = v
           /\ \A q \in AllPins(components) \ ({p} \cup reached) :
                 PinAt(c, q) = PinAt(components, q)
           /\ Range(SetValueTraced(components, p, v, <<>>).calls) = reached

\* an output pin feeds two input pins, one of which holds its value and
\* one of which does not
C23_Witness ==
    \E p \in AllPins(components) :
        /\ p.type = "output"
        /\ \E q1 \in Downstream(components, p), q2 \in Downstream(components, p) :
              /\ PinAt(components, q1).value = PinAt(components, p).value
              /\ PinAt(components, q2).value # PinAt(components, p).value

----------------------------------------------------------------------------
(* Specification of the controls: an INPUT and a CLOCK feed an XOR gate; the *)
(* simulation is started and stopped, components are double-clicked, the     *)
(* circuit is reset, and it is evaluated as the definition of an instance    *)

ControlLayout == <<"INPUT", "CLOCK", "XOR">>

\* the wire lists: none, INPUT to the first pin of the XOR, and CLOCK to its
\* second pin as well
ControlWireEnds ==
    LET end(a, k) == [from |-> [componentId |-> a, pinIndex |-> 0],
                      to |-> [componentId |-> 2, pinIndex |-> k]]
    IN { <<>>, <<end(0, 0)>>, <<end(0, 0), end(1, 1)>> }

InitControls ==
    /\ \E ends \in ControlWireEnds :
         LET r == Deserialize(NewCircuit("main", "main"),
                              ProjectFile(ControlLayout, FALSE, ends),
                              <<>>, BuiltinTypes, 0)
         IN /\ components = r.circuit.components
            /\ wires = r.circuit.wires
            /\ nextId = r.nextId
            /\ inst = NewSubcircuitComponent(r.circuit.components)
    /\ circuits = <<NewCircuit("main", "main")>>
    /\ clipboard = EmptyClipboard
    /\ clickedComponent = NoRef
    /\ currentCircuitName = "main"
    /\ simCircuit = "main"
    /\ registry = BuiltinTypes
    /\ SimIdle
    /\ obs = Obs("init", FALSE, <<>>, FALSE, FALSE)

NextControls ==
    \/ Start
    \/ Stop
    \/ Frame
    \/ Tick
    \/ OnDoubleClick
    \/ Reset
    \/ DriveInstance
    \/ SubEvaluate

SpecControls == InitControls /\ [][NextControls]_vars

\* the truth value of a component's state: of state.value of the state
\* object, or of the primitive that replaced it
StateOn(state) ==
    IF state.kind = "object" THEN StateValue(state).value ELSE state.value

\* C24: right after Simulator.reset() returns, the state of every INPUT and
\* CLOCK component is false and its output pin holds the value false.
C24_ResetClearsInputs ==
    obs.op = "reset" =>
        \A i \in 1..Len(components) :
            components[i].type \in {"INPUT", "CLOCK"} =>
                /\ ~StateOn(components[i].state)
                /\ Stored(components[i].outputPins[1]) = Bool(FALSE)

\* reset() ran on the circuit whose XOR gate has the INPUT on its first pin
\* and nothing on its second, and the XOR gate drives true
C24_Witness ==
    /\ obs.op = "reset"
    /\ Len(wires) = 1
    /\ components[3].outputPins[1].value

\* C25: in every reachable state, a toggle of an INPUT component flips its
\* state, and its output pin holds the new state when the handler returns.
C25_ToggleFlipsInput ==
    [][(obs'.op = "doubleClick" /\ now' = now /\ Called(obs'.calls, "toggle") # <<>>)
       => LET ref == Called(obs'.calls, "toggle")[1]
          IN /\ StateOn(Comp(components', ref).state) = ~StateOn(Comp(components, ref).state)
             /\ Stored(PinAt(components', OutPin(ref, 1)))
                  = Bool(StateOn(Comp(components', ref).state))]_vars

\* an INPUT whose state reset() had replaced was toggled
C25_Witness ==
    /\ obs.op = "doubleClick"
    /\ Called(obs.calls, "toggle") # <<>>
    /\ Comp(components, Called(obs.calls, "toggle")[1]).state.kind = "boolean"

----------------------------------------------------------------------------
(* Specification of a changing interface: a definition is edited (INPUT     *)
(* components dropped on it, components and wires deleted) while an         *)
(* instance constructed from its first version is driven and evaluated      *)

InterfaceLayout == <<"INPUT", "NOT">>

InitInterface ==
    /\ components = Layout(InterfaceLayout)
    /\ inst = NewSubcircuitComponent(Layout(InterfaceLayout))
    /\ nextId = Len(InterfaceLayout)
    /\ wires = <<>>
    /\ SimIdle
    /\ obs = Obs("init", FALSE, <<>>, FALSE, FALSE)
    /\ AppIdle

NextInterface ==
    \/ AddComponent
    \/ OnMouseUpWire
    \/ DeleteSelected
    \/ DriveInstance
    \/ SubEvaluate

SpecInterface == InitInterface /\ [][NextInterface]_vars

\* the refs of the components of a type / not of a type, in the order of refs
OfType(comps, refs, type) == SelectSeq(refs, LAMBDA r : Comp(comps, r).type = type)
NotOfType(comps, refs, type) == SelectSeq(refs, LAMBDA r : Comp(comps, r).type # type)

\* C26: one SubcircuitComponent.evaluate() call evaluates every component of
\* the nested circuit exactly once: the INPUT components first, each holding
\* the value of its boundary pin, then the others in resolver order; also
\* when the nested circuit has gained or lost INPUT components since the
\* instance was constructed.
C26_NestedEachOnce ==
    obs.op = "subevaluate" =>
        LET evaluated == Called(obs.calls, "evaluate")
            inputs == OfType(components, Refs(components), "INPUT")
        IN /\ EachOnce(components, evaluated)
           /\ evaluated = inputs \o NotOfType(components,
                                              SubTopologicalSort(components, wires),
                                              "INPUT")
           /\ \A n \in 1..Len(inputs) :
                 n <= Len(inst.inputPins) =>
                     StateValue(Comp(components, inputs[n]).state)
                         = BoundaryGetValue(inst.inputPins[n])

\* the instance was evaluated after its definition had gained a second INPUT
C26_Witness ==
    /\ obs.op = "subevaluate"
    /\ Len(SelectIdx(components, 1, "INPUT")) > Len(inst.inputPins)

----------------------------------------------------------------------------
(* Feedback *)

\* the positions of the NOT gates whose output pin is wired to their own
\* input pin
SelfInverters(comps, ws) ==
    {i \in 1..Len(comps) :
        /\ comps[i].type = "NOT"
        /\ \E k \in 1..Len(ws) :
              /\ ws[k].fromPin = OutPin(comps[i].ref, 1)
              /\ ws[k].toPin = InPin(comps[i].ref, 1)}

----------------------------------------------------------------------------
(* Specification of the SR latch: two INPUT components drive two NOR gates, *)
(* each gate's output wired to the second pin of the other; the circuit is  *)
(* loaded, simulated, its INPUTs toggled, and reset                         *)

LatchLayout == <<"INPUT", "INPUT", "NOR", "NOR">>

\* the four wires of the latch: the first INPUT on the first NOR gate of the
\* list, which the pass then evaluates before the other, or on the second
LatchWireEnds ==
    LET end(a, b, k) == [from |-> [componentId |-> a, pinIndex |-> 0],
                         to |-> [componentId |-> b, pinIndex |-> k]]
    IN { <<end(0, 2, 0), end(1, 3, 0), end(2, 3, 1), end(3, 2, 1)>>,
         <<end(0, 3, 0), end(1, 2, 0), end(2, 3, 1), end(3, 2, 1)>> }

InitLatch ==
    /\ \E ends \in LatchWireEnds, inputValue \in BOOLEAN :
         LET r == Deserialize(NewCircuit("main", "main"),
                              ProjectFile(LatchLayout, inputValue, ends),
                              <<>>, BuiltinTypes, 0)
         IN /\ components = r.circuit.components
            /\ wires = r.circuit.wires
            /\ nextId = r.nextId
    /\ inst = NewSubcircuitComponent(<<>>)
    /\ circuits = <<NewCircuit("main", "main")>>
    /\ clipboard = EmptyClipboard
    /\ clickedComponent = NoRef
    /\ currentCircuitName = "main"
    /\ simCircuit = "main"
    /\ registry = BuiltinTypes
    /\ SimIdle
    /\ obs = Obs("init", FALSE, <<>>, FALSE, FALSE)

NextLatch ==
    \/ Start
    \/ Stop
    \/ Frame
    \/ Evaluate
    \/ OnDoubleClick
    \/ Reset

SpecLatch == InitLatch /\ [][NextLatch]_vars

\* every wired input pin stores the value of the output pin at the other end
\* of its wire
WiresCarry(comps, ws) ==
    \A k \in 1..Len(ws) : Stored(PinAt(comps, ws[k].toPin)) = Stored(PinAt(comps, ws[k].fromPin))

\* C28: with the INPUT values left as they are, repeated evaluate() passes
\* over the SR latch of two cross-coupled NOR gates reach a settled state
\* after at most two passes, from any reachable pin state and for either
\* evaluation order of the gates: a third pass changes no pin value, every
\* gate's output is its function of its input pins, and every wire carries
\* its source's value.
C28_LatchSettles ==
    LET p1 == SimEvaluate(components, wires)
        p2 == SimEvaluate(p1.components, wires)
        p3 == SimEvaluate(p2.components, wires)
    IN /\ ~p1.thrown /\ ~p2.thrown /\ ~p3.thrown
       /\ p3.components = p2.components
       /\ GatesSettled(p2.components)
       /\ WiresCarry(p2.components, wires)

\* a state from which the second pass still changes a pin, in the latch
\* whose second NOR gate is evaluated first
C28_Witness ==
    /\ SimEvaluate(SimEvaluate(components, wires).components, wires).components
         # SimEvaluate(components, wires).components
    /\ Position(TopologicalSort(components, wires), 4)
         < Position(TopologicalSort(components, wires), 3)

----------------------------------------------------------------------------
(* Specification of opening a saved circuit whose components carry any      *)
(* saved state: none, the primitive a reset left, or an object with any of  *)
(* the keys, as files of other versions of the definitions hold them        *)

StateKeys == {"value", "lastToggle", "period"}

\* the value a state holds under a key
Field(state, key) ==
    CASE key = "value" -> state.value
      [] key = "lastToggle" -> state.lastToggle
      [] key = "period" -> state.period

\* the state objects a file can hold
SavedObjects ==
    {st \in [kind : {"object"}, keys : SUBSET StateKeys, value : BOOLEAN,
             lastToggle : {0, 1}, period : {0, ClockPeriod + 1}] :
        /\ "value" \notin st.keys => ~st.value
        /\ "lastToggle" \notin st.keys => st.lastToggle = 0
        /\ "period" \notin st.keys => st.period = 0}

\* what a file can hold as the state of a component; UndefinedState is an
\* entry without state
SavedStates == SavedObjects \cup {PrimitiveFalse, UndefinedState}

SavedLayouts == { <<"CLOCK">>, <<"INPUT", "SUBCIRCUIT_A">> }

\* the file of the components of types, the i-th holding saved[i]
SavedFile(types, saved) ==
    [ProjectFile(types, FALSE, <<>>) EXCEPT
        !.components = [i \in 1..Len(types) |->
            [@[i] EXCEPT !.state = saved[i],
                         !.keys = IF saved[i].kind = "undefined"
                                  THEN @ \ {"state"} ELSE @ \cup {"state"}]]]

\* Circuit.deserialize of such a file into the empty main circuit
OpenSaved ==
    /\ nextId = 0
    /\ Len(components) = 0
    /\ \E types \in SavedLayouts :
         \E saved \in [1..Len(types) -> SavedStates] :
            LET data == SavedFile(types, saved)
                r == Deserialize(NewCircuit("main", "main"), data, <<>>, registry, nextId)
            IN /\ components' = r.circuit.components
               /\ wires' = r.circuit.wires
               /\ nextId' = r.nextId
               /\ obs' = Obs("deserialize", FALSE, <<<<"data", data>>>>, FALSE, FALSE)
    /\ UNCHANGED <<inst, simVars, circuits, currentCircuitName, simCircuit, registry, clipboard, clickedComponent>>

InitSaved == InitApp

NextSaved ==
    \/ OpenSaved
    \/ Evaluate

SpecSaved == InitSaved /\ [][NextSaved]_vars

\* the state a component of this type is constructed with
FreshState(type) == IF IsSubType(type) THEN UndefinedState ELSE DefaultState(type)

\* C29: after Circuit.deserialize the state of each component is the merge of
\* its freshly constructed state with the saved state: every key of the
\* saved state holds the saved value, and every other key of the fresh state
\* holds its default.
C29_StateMerged ==
    obs.op = "deserialize" =>
        /\ Len(components) = Len(LoadedData.components)
        /\ \A i \in 1..Len(components) :
              LET saved == LoadedData.components[i].state
                  fresh == FreshState(LoadedData.components[i].type)
                  state == components[i].state
              IN IF fresh.kind # "object"
                 THEN state = saved
                 ELSE /\ state.kind = "object"
                      /\ state.keys = fresh.keys \cup saved.keys
                      /\ \A k \in saved.keys : Field(state, k) = Field(saved, k)
                      /\ \A k \in fresh.keys \ saved.keys : Field(state, k) = Field(fresh, k)

\* a clock was loaded from a file that holds its value and lastToggle but no
\* period: the period is that of the definition
C29_Witness ==
    /\ obs.op = "deserialize"
    /\ Len(components) = 1
    /\ LoadedData.components[1].state.keys = {"value", "lastToggle"}
    /\ LoadedData.components[1].state.value
    /\ components[1].state.value
    /\ components[1].state.period = ClockPeriod

----------------------------------------------------------------------------
(* Input pins with one driver *)

\* the input pins of the circuit with exactly one wire connected
SingleDriven(comps) ==
    {p \in AllPins(comps) : p.type = "input" /\ Len(PinAt(comps, p).connectedWires) = 1}

\* C30: after wire creations and removals through the UI and one
\* Simulator.evaluate() pass, every input pin with exactly one incoming wire
\* stores the value of that wire's source output pin, also when a second
\* incoming wire of the pin was removed before.
C30_SingleDriverCarried ==
    obs.op = "evaluate" =>
        \A p \in SingleDriven(components) :
            Stored(PinAt(components, p))
                = Stored(PinAt(components, PinAt(components, p).connectedWires[1].fromPin))

\* a pass has run over a circuit in which two gates have one incoming wire
\* each, and both hold the true value of their sources
C30_Witness ==
    /\ obs.op = "evaluate"
    /\ Cardinality({p \in SingleDriven(components) :
                       /\ PinAt(components, p).value
                       /\ PinAt(components, PinAt(components, p).connectedWires[1].fromPin).value})
         >= 2

----------------------------------------------------------------------------
(* Nested evaluation: component.evaluate() of a circuit of the project,     *)
(* where a SubcircuitComponent evaluates the circuit of the map that its    *)
(* circuitInstance refers to. The definition is the one Circuit object of   *)
(* the map, whichever instance evaluates it.                                *)

\* the nested evaluate() calls the call stack has room for
MaxDepth == 3

\* the map after the components of the circuit called key were written
PutComponents(full, key, comps) ==
    [k \in 1..Len(full) |->
        IF full[k].key = key THEN [full[k] EXCEPT !.components = comps] ELSE full[k]]

\* step 3 of SubcircuitComponent.evaluate for the instance ref of circuit
\* key: outputPins[i].setValue(output.getValue()), which forwards a changed
\* value along the wires of the parent circuit
RECURSIVE MapOutputsIn(_, _, _, _, _)
MapOutputsIn(full, key, ref, def, i) ==
    CHOOSE done \in
        { IF i > Len(SelectIdx(inner, 1, "OUTPUT")) THEN full
          ELSE IF i <= Len(Comp(parent, ref).outputPins)
               THEN MapOutputsIn(
                        PutComponents(full, key,
                            SetValue(parent, OutPin(ref, i),
                                     ComponentGetValue(inner,
                                         inner[SelectIdx(inner, 1, "OUTPUT")[i]].ref))),
                        key, ref, def, i + 1)
               ELSE MapOutputsIn(full, key, ref, def, i + 1) :
          inner \in {GetCircuit(full, def).components},
          parent \in {GetCircuit(full, key).components} } : TRUE

RECURSIVE EvaluateIn(_, _, _, _)
RECURSIVE EvaluateEachIn(_, _, _, _, _)

\* the three steps of SubcircuitComponent.evaluate for the instance c, the
\* component ref of circuit key, on the definition d0 of the map
EvaluateInstance(full, key, ref, c, d0, depth) ==
    CHOOSE done \in
        { IF e.thrown THEN e
          ELSE [circuits |-> MapOutputsIn(e.circuits, key, ref, d0.key, 1),
                thrown |-> FALSE, overflow |-> FALSE] :
          e \in { EvaluateEachIn(PutComponents(full, d0.key, m.components), d0.key,
                                 SubTopologicalSort(m.components, d0.wires),
                                 depth - 1, TRUE) :
                  m \in {MapInputs(d0.components, SelectIdx(d0.components, 1, "INPUT"), 1,
                                   c.inputPins, <<>>)} } } : TRUE

\* component.evaluate() of the component ref of circuit key; depth is the
\* room left on the call stack. A SubcircuitComponent with a circuitInstance
\* runs the three steps on that circuit; when the stack is used up the call
\* ends with a RangeError (overflow).
EvaluateIn(full, key, ref, depth) ==
    CHOOSE done \in
        { IF c.type = "SUBCIRCUIT" /\ c.circuitInstance # NoName
             /\ HasCircuit(full, c.circuitInstance)
          THEN IF depth = 0
               THEN [circuits |-> full, thrown |-> TRUE, overflow |-> TRUE]
               ELSE EvaluateInstance(full, key, ref, c,
                                     GetCircuit(full, c.circuitInstance), depth)
          ELSE [circuits |-> PutComponents(full, key, EvaluateComponent(comps, ref).components),
                thrown |-> FALSE, overflow |-> FALSE] :
          <<comps, c>> \in { <<cs, Comp(cs, ref)>> : cs \in {GetCircuit(full, key).components} }
        } : TRUE

\* ordered.forEach(component => component.evaluate()) over circuit key; the
\* forEach of SubcircuitComponent.evaluate skips the INPUT components
EvaluateEachIn(full, key, order, depth, skipInputs) ==
    IF order = <<>> THEN [circuits |-> full, thrown |-> FALSE, overflow |-> FALSE]
    ELSE IF skipInputs /\ Comp(GetCircuit(full, key).components, Head(order)).type = "INPUT"
         THEN EvaluateEachIn(full, key, Tail(order), depth, skipInputs)
         ELSE CHOOSE done \in
                  { IF r.thrown THEN r
                    ELSE EvaluateEachIn(r.circuits, key, Tail(order), depth, skipInputs) :
                    r \in {EvaluateIn(full, key, Head(order), depth)} } : TRUE

\* Simulator.evaluate over the circuit called key of the map
SimEvaluateIn(full, key) ==
    EvaluateEachIn(full, key,
                   TopologicalSort(GetCircuit(full, key).components,
                                   GetCircuit(full, key).wires),
                   MaxDepth, FALSE)

\* Simulator.loop of the displayed circuit's simulator; queue is what the
\* browser still holds. (No circuit of these projects holds a CLOCK.)
LoopIn(op, queue) ==
    \E e \in {SimEvaluateIn(FullCircuits, currentCircuitName)} :
       /\ components' = GetCircuit(e.circuits, currentCircuitName).components
       /\ circuits' = Shelve(e.circuits, currentCircuitName)
       /\ IF e.thrown
          THEN /\ pendingFrames' = queue
               /\ UNCHANGED animationId
          ELSE /\ animationId' = RequestAnimationFrame(queue)
               /\ pendingFrames' = queue \cup {RequestAnimationFrame(queue)}
       /\ obs' = Obs(op, TRUE, <<>>, e.thrown, ~e.thrown)

\* Simulator.start in a project with subcircuits
StartProject ==
    /\ ~running
    /\ running' = TRUE
    /\ LoopIn("start", pendingFrames)
    /\ UNCHANGED <<wires, inst, now, currentCircuitName, simCircuit, registry, nextId, clipboard, clickedComponent>>

\* the browser runs the queued frame callback of a running simulator
FrameProject ==
    /\ running
    /\ \E id \in pendingFrames :
         /\ running' = running
         /\ LoopIn("frame", pendingFrames \ {id})
    /\ UNCHANGED <<wires, inst, now, currentCircuitName, simCircuit, registry, nextId, clipboard, clickedComponent>>

----------------------------------------------------------------------------
(* Specification of a shared definition: subcircuit A is INPUT -> OR ->      *)
(* OUTPUT, with or without a wire from the OR gate's output back to its     *)
(* second input; main holds two INPUTs, each wired to the input pin of its  *)
(* own instance of A; main is simulated and its INPUTs are toggled          *)

SharedLayout == <<"INPUT", "OR", "OUTPUT">>

\* the wires drawn in A: the chain, and the chain with the feedback wire
SharedWireEnds ==
    LET end(a, b, k) == [from |-> [componentId |-> a, pinIndex |-> 0],
                         to |-> [componentId |-> b, pinIndex |-> k]]
    IN { <<end(0, 1, 0), end(1, 2, 0)>>,
         <<end(0, 1, 0), end(1, 1, 1), end(1, 2, 0)>> }

\* main as the palette drops and the wire tool build it: position 1 and 2
\* hold the INPUTs when inputsFirst, else each INPUT precedes its instance
SharedMain(cs, inputsFirst) ==
    LET types == IF inputsFirst THEN <<"INPUT", "INPUT", "A", "A">>
                 ELSE <<"INPUT", "A", "INPUT", "A">>
        made == [i \in 1..4 |->
                    IF types[i] = "A" THEN InstanceOf(cs, i, i + 2, 0, 0, "A")
                    ELSE NewComponent(i, i + 2, "INPUT", 0, 0)]
        wire(a, b) == [ref |-> 1, id |-> 1, fromPin |-> OutPin(a, 1), toPin |-> InPin(b, 1)]
        w1 == IF inputsFirst THEN wire(1, 3) ELSE wire(1, 2)
        w2 == IF inputsFirst THEN wire(2, 4) ELSE wire(3, 4)
    IN [components |-> NewWire(NewWire(made, w1), w2), wires |-> <<w1, w2>>]

InitShared ==
    /\ \E ends \in SharedWireEnds, inputsFirst \in BOOLEAN :
         LET a == Deserialize([NewCircuit("A", "A") EXCEPT !.isSubcircuit = TRUE],
                              [ProjectFile(SharedLayout, FALSE, ends) EXCEPT !.name = "A"],
                              <<>>, BuiltinTypes, 0)
             m == SharedMain(<<a.circuit>>, inputsFirst)
         IN /\ components = m.components
            /\ wires = m.wires
            /\ circuits = <<NewCircuit("main", "Main Circuit"), a.circuit>>
            /\ nextId = a.nextId + 4
    /\ inst = NewSubcircuitComponent(<<>>)
    /\ clipboard = EmptyClipboard
    /\ clickedComponent = NoRef
    /\ currentCircuitName = "main"
    /\ simCircuit = "main"
    /\ registry = RegisterSubcircuit(BuiltinTypes, "A")
    /\ SimIdle
    /\ obs = Obs("init", FALSE, <<>>, FALSE, FALSE)

NextShared ==
    \/ StartProject
    \/ Stop
    \/ FrameProject
    \/ ToggleInput

SpecShared == InitShared /\ [][NextShared]_vars

\* the live instances of one definition in the displayed circuit, as pairs of
\* different components
InstancePairs(comps) ==
    {pair \in Range(Refs(comps)) \X Range(Refs(comps)) :
        /\ pair[1] # pair[2]
        /\ Comp(comps, pair[1]).type = "SUBCIRCUIT"
        /\ Comp(comps, pair[2]).type = "SUBCIRCUIT"
        /\ Comp(comps, pair[1]).circuitInstance # NoName
        /\ Comp(comps, pair[1]).circuitInstance = Comp(comps, pair[2]).circuitInstance}

\* the values on the output pins of component ref
OutputValues(comps, ref) ==
    [i \in 1..Len(Comp(comps, ref).outputPins) |-> Stored(Comp(comps, ref).outputPins[i])]

\* the displayed circuit after the INPUT at position i was toggled
Toggled(comps, i) ==
    EvaluateComponent([comps EXCEPT ![i].state =
                           AssignStateValue(@, Bool(~StateValue(@).value))],
                      comps[i].ref).components

\* the displayed circuit after one Simulator.evaluate() pass from comps
AfterPass(comps) ==
    GetCircuit(SimEvaluateIn(PutComponents(FullCircuits, currentCircuitName, comps),
                             currentCircuitName).circuits,
               currentCircuitName).components

\* C31: of two instances of one definition, the output pins of an instance
\* after the pass depend only on what was driven into that instance: from
\* any reachable state, toggling an INPUT of the parent that is wired to the
\* other instance only, and running the pass, leaves this instance's output
\* pins as the pass alone leaves them.
C31_InstancesIsolated ==
    \A pair \in InstancePairs(components) :
        \A i \in 1..Len(components) :
            (/\ running
             /\ components[i].type = "INPUT"
             /\ Reaches(wires, components[i].ref, pair[1])
             /\ ~Reaches(wires, components[i].ref, pair[2]))
            => OutputValues(AfterPass(Toggled(components, i)), pair[2])
                 = OutputValues(AfterPass(components), pair[2])

\* the simulation runs, a pass has evaluated both instances, and the two
\* instances hold different values on their input pins
C31_Witness ==
    /\ running
    /\ obs.op = "frame"
    /\ \E pair \in InstancePairs(components) :
          /\ Comp(components, pair[1]).inputPins[1].value
          /\ ~Comp(components, pair[2]).inputPins[1].value

----------------------------------------------------------------------------
(* Specification of nesting: circuits are created and selected, palette     *)
(* entries (INPUT and every subcircuit of the circuits list, the displayed  *)
(* one included) are dropped on the displayed circuit, and the displayed    *)
(* circuit is simulated                                                     *)

InitNesting == InitApp

NextNesting ==
    \/ CreateNewCircuit
    \/ OnSelectCircuit
    \/ AddComponent
    \/ StartProject
    \/ Stop
    \/ FrameProject

SpecNesting == InitNesting /\ [][NextNesting]_vars

\* the circuits of the map that hold a live instance of the circuit called name
Holders(full, name) ==
    {full[k].key : k \in {j \in 1..Len(full) :
        \E i \in 1..Len(full[j].components) :
            /\ full[j].components[i].type = "SUBCIRCUIT"
            /\ full[j].components[i].circuitInstance = name}}

\* C32: Simulator.evaluate() on the displayed circuit returns for every
\* project built through the UI: the nested evaluate() calls of its
\* SubcircuitComponents come to an end within the call stack, also when an
\* instance of a subcircuit lies inside that subcircuit's own definition.
C32_EvaluateTerminates ==
    ~SimEvaluateIn(FullCircuits, currentCircuitName).overflow

\* a pass has returned normally over a circuit that holds a live instance of
\* another circuit
C32_Witness ==
    /\ obs.op \in {"start", "frame"}
    /\ ~obs.thrown
    /\ currentCircuitName \in Holders(FullCircuits, "A")
    /\ currentCircuitName # "A"

----------------------------------------------------------------------------
(* A reset while the simulation runs *)

\* the positions of the CLOCK components whose state is the state object
LiveClocks(comps) ==
    {i \in 1..Len(comps) : comps[i].type = "CLOCK" /\ comps[i].state.kind = "object"}

\* C33: when Simulator.reset() is called while the simulation runs, every
\* CLOCK keeps its period, and there is a later frame time, at most one
\* period ahead, at which the frame's update toggles the clock again.
C33_ClockSurvivesReset ==
    running =>
        LET r == SimReset(components, wires).components
        IN \A i \in LiveClocks(components) :
              /\ r[i].state.kind = "object"
              /\ "period" \in r[i].state.keys
              /\ r[i].state.period = components[i].state.period
              /\ \E t \in now..(now + components[i].state.period) :
                    UpdateComponent(r, r[i].ref, t)[i].state # r[i].state

\* the simulation was running when reset() replaced the clock's state, and a
\* later frame, more than half a period after the clock's last toggle, has
\* updated and evaluated the circuit
C33_Witness ==
    /\ running
    /\ obs.op = "frame"
    /\ Called(obs.calls, "update") # <<>>
    /\ components[2].state.kind = "boolean"
    /\ now >= ClockPeriod

----------------------------------------------------------------------------
(* The wire list and the pins' connectedWires *)

\* every wire of the list is listed by the pins at both its ends
WiresRegistered(comps, ws) ==
    \A i \in 1..Len(ws) :
        /\ HasPin(comps, ws[i].fromPin)
        /\ HasPin(comps, ws[i].toPin)
        /\ WireHandle(ws[i]) \in Range(PinAt(comps, ws[i].fromPin).connectedWires)
        /\ WireHandle(ws[i]) \in Range(PinAt(comps, ws[i].toPin).connectedWires)

\* no pin lists a wire twice
ListedOnce(comps) ==
    \A p \in AllPins(comps) :
        Cardinality(Range(PinAt(comps, p).connectedWires))
            = Len(PinAt(comps, p).connectedWires)

\* C34: after any sequence of wire creation, removeWire, removeComponent,
\* clear, cut, paste and deserialize, a wire is in the circuit's wire list
\* exactly when the pins at both its ends hold it in connectedWires, and no
\* pin holds the same wire twice.
C34_WireListMatchesPins ==
    /\ WiresRegistered(components, wires)
    /\ ListedAtOwnEnd(components, wires)
    /\ ListedOnce(components)

\* a delete or cut has removed a component with the wires that touched it,
\* and an input pin of the circuit still holds a wire
C34_Witness ==
    /\ obs.op \in {"delete", "cut"}
    /\ Len(Called(obs.calls, "removeComponent")) > 0
    /\ Called(obs.calls, "incident")[1] > 0
    /\ \E p \in AllPins(components) :
          p.type = "input" /\ Len(PinAt(components, p).connectedWires) > 0

----------------------------------------------------------------------------
(* Loading a file the user picked: App.loadProject / App.fallbackLoad once   *)
(* the text was read and parsed                                             *)

\* a circuit entry of a file; readable tells whether the entry has the data
\* object Circuit.deserialize reads
FileEntry(name, isSubcircuit, types, readable) ==
    [name |-> name, isSubcircuit |-> isSubcircuit, readable |-> readable,
     data |-> [ProjectFile(types, FALSE, <<>>) EXCEPT !.name = name,
                                                     !.isSubcircuit = isSubcircuit]]

\* the files picked: without a circuits list, with an empty one, well formed,
\* and with an entry that cannot be deserialized, first or after another
ProjectFiles ==
    { [hasCircuits |-> FALSE, circuits |-> <<>>, currentCircuit |-> "main"],
      [hasCircuits |-> TRUE, circuits |-> <<>>, currentCircuit |-> "main"],
      [hasCircuits |-> TRUE, currentCircuit |-> "main",
       circuits |-> <<FileEntry("main", FALSE, <<"INPUT">>, TRUE)>>],
      [hasCircuits |-> TRUE, currentCircuit |-> "A",
       circuits |-> <<FileEntry("main", FALSE, <<>>, TRUE),
                      FileEntry("A", TRUE, <<"INPUT">>, TRUE)>>],
      [hasCircuits |-> TRUE, currentCircuit |-> "main",
       circuits |-> <<FileEntry("A", TRUE, <<>>, FALSE)>>],
      [hasCircuits |-> TRUE, currentCircuit |-> "main",
       circuits |-> <<FileEntry("main", FALSE, <<"NOT">>, TRUE),
                      FileEntry("A", TRUE, <<>>, FALSE)>>] }

\* the entries data.circuits.forEach gets through before an entry throws
Readable(entries) ==
    SubSeq(entries, 1,
           IF \E i \in 1..Len(entries) : ~entries[i].readable
           THEN (CHOOSE i \in 1..Len(entries) :
                    ~entries[i].readable /\ \A j \in 1..(i - 1) : entries[j].readable) - 1
           ELSE Len(entries))

\* the body of the try block up to the switch: circuits.clear(), then the
\* forEach over data.circuits; failed when an exception left it
LoadData(data, reg, id) ==
    IF ~data.hasCircuits
    THEN [circuits |-> <<>>, registry |-> reg, nextId |-> id, failed |-> TRUE]
    ELSE LET r == LoadCircuits(Readable(data.circuits), 1, <<>>, reg, id)
         IN [circuits |-> r.circuits, registry |-> r.registry, nextId |-> r.nextId,
             failed |-> Len(Readable(data.circuits)) < Len(data.circuits)]

\* App.loadProject on the file data: after a failure, or with no circuit
\* loaded, switchCircuit is not reached and the simulator and the interaction
\* manager keep the circuit they had, which the map no longer holds
LoadFile ==
    /\ \E data \in ProjectFiles :
         \E r \in {LoadData(data, registry, nextId)} :
            /\ r.nextId <= MaxId
            /\ registry' = r.registry
            /\ nextId' = r.nextId
            /\ obs' = Obs("loadFile", FALSE, <<>>, r.failed, FALSE)
            /\ IF r.failed \/ Len(r.circuits) = 0
               THEN /\ circuits' = r.circuits
                    /\ simCircuit' = NoName
                    /\ UNCHANGED <<components, wires, running, animationId, pendingFrames,
                                   currentCircuitName>>
               ELSE SwitchCircuit(r.circuits,
                                  IF HasCircuit(r.circuits, data.currentCircuit)
                                  THEN data.currentCircuit
                                  ELSE IF HasCircuit(r.circuits, "main") THEN "main"
                                  ELSE r.circuits[1].key)
    /\ UNCHANGED <<inst, now, clipboard, clickedComponent>>

----------------------------------------------------------------------------
(* Specification of the project: circuits are created, selected and         *)
(* deleted, files are loaded, and the displayed circuit is simulated        *)

InitProject == InitApp

NextProject ==
    \/ CreateNewCircuit
    \/ OnSelectCircuit
    \/ DeleteSubcircuit
    \/ LoadFile
    \/ Start
    \/ Stop
    \/ Frame

SpecProject == InitProject /\ [][NextProject]_vars

\* C35: after any sequence of create-circuit, switch-circuit,
\* delete-subcircuit, load-project, simulate and stop actions, the circuit of
\* the application's simulator and of the interaction manager is the circuit
\* the map holds under currentCircuitName, no simulator other than the
\* application's has a frame queued, and right after a switch no simulator
\* is running.
C35_OneSimulatorOnDisplayed ==
    /\ simCircuit = currentCircuitName
    /\ HasCircuit(circuits, currentCircuitName)
    /\ pendingFrames \subseteq {animationId}
    /\ pendingFrames # {} => running
    /\ obs.op \in {"switchCircuit", "createNewCircuit"} => ~running /\ pendingFrames = {}

\* a file has been loaded: its circuit is displayed, the application's
\* simulator owns it and is not running
C35_Witness ==
    /\ obs.op = "loadFile"
    /\ ~obs.thrown
    /\ simCircuit = currentCircuitName
    /\ Len(components) > 0
    /\ ~running

----------------------------------------------------------------------------
(* A load that fails *)

\* C38: when loadProject fails after the file was read, because the parsed
\* data has no circuits list or a circuit entry cannot be deserialized, the
\* circuits map holds the circuits it held before the load.
C38_FailedLoadKeepsCircuits ==
    \A data \in ProjectFiles :
        LoadData(data, registry, nextId).failed
            => LoadData(data, registry, nextId).circuits = FullCircuits

\* a load has failed at its second entry, after the first had been set in
\* the map, while the simulation was running
C38_Witness ==
    /\ obs.op = "loadFile"
    /\ obs.thrown
    /\ Len(circuits) > 0
    /\ running

----------------------------------------------------------------------------
(* Pressing and releasing the mouse on a component *)

\* definition.logic.onMouseDown / logic.onMouseUp is present
HasMouseLogic(type) == type = "PUSH_BUTTON"

\* component.onMouseDown || component.onMouseUp: the methods GenericComponent
\* declares; a SubcircuitComponent has neither
HasMouseHandlers(c) == c.type # "SUBCIRCUIT"

\* GenericComponent.onMouseDown (down) / onMouseUp (~down): the logic of the
\* definition, when it has one, sets or clears state.value, and the component
\* is evaluated
MouseLogic(comps, ref, down) ==
    LET ci == CompIdx(comps, ref)
    IN IF HasMouseLogic(comps[ci].type)
       THEN EvaluateComponent([comps EXCEPT ![ci].state = AssignStateValue(@, Bool(down))],
                              ref).components
       ELSE comps

\* a release that gives the stored component onMouseUp whether or not the
\* simulator runs
ReleaseCallsAlways(isRunning, clicked) ==
    IF clicked # NoRef THEN <<<<"onMouseUp", clicked>>>> ELSE <<>>

\* the calls InteractionManager.onMouseUp makes on the component a press was
\* stored for: onMouseUp, only while the simulator runs
ReleaseCalls(isRunning, clicked) ==
    IF clicked # NoRef /\ isRunning THEN <<<<"onMouseUp", clicked>>>> ELSE <<>>

\* InteractionManager.onMouseDown, left button on the body of the i-th
\* component: while the simulation runs a component with mouse handlers is
\* stored as clickedComponent and gets onMouseDown; otherwise the component is
\* selected and a drag starts
MouseDown(i) ==
    LET ref == components[i].ref
    IN /\ IF running /\ HasMouseHandlers(components[i])
          THEN /\ clickedComponent' = ref
               /\ components' = MouseLogic(components, ref, TRUE)
               /\ obs' = Obs("mouseDown", FALSE, <<<<"onMouseDown", ref>>>>, FALSE, FALSE)
          ELSE /\ UNCHANGED <<clickedComponent, components>>
               /\ obs' = Obs("mouseDown", FALSE, <<<<"drag", ref>>>>, FALSE, FALSE)
       /\ UNCHANGED <<wires, inst, simVars, circuits, currentCircuitName, simCircuit,
                      registry, nextId, clipboard>>

\* a press on any component
OnMouseDown == \E i \in 1..Len(components) : MouseDown(i)

\* InteractionManager.onMouseUp when no pan, selection box or wire is being
\* drawn: the stored component gets onMouseUp if the simulator runs, and the
\* stored component is forgotten
OnMouseUp ==
    /\ \E calls \in {ReleaseCalls(running, clickedComponent)} :
         /\ components' = IF Len(calls) > 0
                          THEN MouseLogic(components, clickedComponent, FALSE)
                          ELSE components
         /\ obs' = Obs("mouseUp", FALSE, calls, FALSE, FALSE)
    /\ clickedComponent' = NoRef
    /\ UNCHANGED <<wires, inst, simVars, circuits, currentCircuitName, simCircuit,
                   registry, nextId, clipboard>>

----------------------------------------------------------------------------
(* Specification of the mouse: a push button and an INPUT feed an OR gate;   *)
(* the simulation is started and stopped while components are pressed,       *)
(* released and double-clicked                                               *)

MouseLayout == <<"PUSH_BUTTON", "INPUT", "OR">>

MouseWireEnds ==
    LET end(a, k) == [from |-> [componentId |-> a, pinIndex |-> 0],
                      to |-> [componentId |-> 2, pinIndex |-> k]]
    IN <<end(0, 0), end(1, 1)>>

InitMouse ==
    /\ LET r == Deserialize(NewCircuit("main", "main"),
                            ProjectFile(MouseLayout, FALSE, MouseWireEnds),
                            <<>>, BuiltinTypes, 0)
       IN /\ components = r.circuit.components
          /\ wires = r.circuit.wires
          /\ nextId = r.nextId
          /\ inst = NewSubcircuitComponent(r.circuit.components)
    /\ circuits = <<NewCircuit("main", "main")>>
    /\ clipboard = EmptyClipboard
    /\ clickedComponent = NoRef
    /\ currentCircuitName = "main"
    /\ simCircuit = "main"
    /\ registry = BuiltinTypes
    /\ SimIdle
    /\ obs = Obs("init", FALSE, <<>>, FALSE, FALSE)

NextMouse ==
    \/ Start
    \/ Stop
    \/ Frame
    \/ OnMouseDown
    \/ OnMouseUp
    \/ OnDoubleClick

SpecMouse == InitMouse /\ [][NextMouse]_vars

\* the components whose mouse logic holds them pressed
HeldDown(comps) ==
    { comps[i].ref : i \in { j \in 1..Len(comps) :
                               HasMouseLogic(comps[j].type) /\ StateValue(comps[j].state).value } }

\* C36: a component that was given onMouseDown and whose release is still to
\* come is given onMouseUp by the release, also when the simulation was
\* stopped after the press.
C36_PressIsReleased ==
    clickedComponent # NoRef
        => Called(ReleaseCalls(running, clickedComponent), "onMouseUp") = <<clickedComponent>>

\* the button was pressed while the simulation ran, the simulation was stopped,
\* and the mouse was released: the button is still held down
C36_Witness ==
    /\ obs.op = "mouseUp"
    /\ ~running
    /\ clickedComponent = NoRef
    /\ HeldDown(components) # {}

====
